---- MODULE Spec2Model ----
(***************************************************************************)
(* Verification model of the virtual-research-data-generator scripts:      *)
(* the process-wide numpy random state shared by the generator classes,    *)
(* the statistical validator's pass criterion, censoring of survival       *)
(* times, and the effect-size / odds-ratio adjusters.                      *)
(*                                                                         *)
(* Real numbers are modelled exactly: integers, or rationals compared by   *)
(* cross-multiplication.  Library calls (numpy's generator, scipy's tests) *)
(* are modelled by what the scripts rely on: a deterministic stream that   *)
(* np.random.seed resets, and a p-value that is some number, NaN or None.  *)
(***************************************************************************)
EXTENDS Integers, Sequences, FiniteSets, TLC

\* An optional value (Optional[float], Optional[int]) is <<>> for None and
\* <<x>> for the value x.
None == <<>>
Some(x) == <<x>>
Val(o) == o[1]

Abs(x) == IF x < 0 THEN -x ELSE x
Min(a, b) == IF a <= b THEN a ELSE b
Max(a, b) == IF a >= b THEN a ELSE b

(***************************************************************************)
(* Part 1.  The process-wide random state (np.random) and the generators.  *)
(***************************************************************************)
VARIABLES
    rng,    \* the state of numpy's global RandomState
    gens,   \* the generator instances constructed so far: [cls, random_seed]
    log,    \* every constructor and sampler call so far, in program order
    vin,      \* the validate_* call about to be made: its arguments
    results,  \* StatisticalValidator.results
    vret,     \* "pending", then "returned" or "raised"
    cin,    \* the generate_censoring call about to be made: its arguments
    cout,   \* what generate_censoring returned
    ein,    \* the adjust_effect_size call about to be made: its arguments
    eout,   \* what adjust_effect_size returned
    oin,      \* the adjust_odds_ratio call being made: its arguments
    adjusted, \* adjust_odds_ratio's local array
    iter,     \* the number of loop iterations begun
    opc,      \* where adjust_odds_ratio is: "start", "loop", or how it left the loop
    fin,    \* the call about to be made to one of the other operations: its arguments
    fout    \* what that call returned, or that it raised

rngVars == <<rng, gens, log>>
valVars == <<vin, results, vret>>
censVars == <<cin, cout>>
effVars == <<ein, eout>>
oddsVars == <<oin, adjusted, iter, opc>>
fnVars == <<fin, fout>>
vars == <<rngVars, valVars, censVars, effVars, oddsVars, fnVars>>

\* a part of the program that is not running stays as it is
NoCall == [fn |-> "-"]
RngIdle == rng = 0 /\ gens = <<>> /\ log = <<>>
ValIdle == vin = NoCall /\ results = <<>> /\ vret = "idle"
CensIdle == cin = NoCall /\ cout = NoCall
EffIdle == ein = NoCall /\ eout = NoCall
OddsIdle == oin = NoCall /\ adjusted = <<>> /\ iter = 0 /\ opc = "idle"
FnIdle == fin = NoCall /\ fout = NoCall

\* bounds of the exploration
MaxGens == 2
MaxLog == 4

RngMod == 16
Seeds == {Some(1), Some(2)}
Sizes == {1, 2}
Classes == {"ContinuousVariableGenerator", "CategoricalVariableGenerator",
            "SurvivalDataGenerator", "RealismEnhancer"}

\* np.random.seed(s): the global state becomes a function of s alone.
SeedStateKeep(state, s) == state
SeedState(state, s) == s % RngMod

\* One step of the stream: the state advances, the raw variate is the new state.
NextState(state) == (5 * state + 3) % RngMod

RECURSIVE StateAfter(_, _)
StateAfter(state, n) == IF n = 0 THEN state ELSE StateAfter(NextState(state), n - 1)

\* np.random.<dist>(..., n): n successive raw variates drawn from `state`.
RawDraws(state, n) == [k \in 1..n |-> StateAfter(state, k)]

\* __init__(random_seed): seeds the global state unless random_seed is None.
InitState(state, random_seed) ==
    IF random_seed # None THEN SeedState(state, Val(random_seed)) ELSE state

\* max_time passed to generate_exponential
MaxTime == 12
\* generate_uniform(n, 0, RngMod): the variates themselves.
generate_uniform(raw) == raw

\* generate_binary(n, 0.5): 1 where the variate falls in the lower half.
generate_binary(raw) == [k \in DOMAIN raw |-> IF 2 * raw[k] < RngMod THEN 1 ELSE 0]

\* generate_exponential(n, median_survival, MaxTime): a time that grows with
\* the variate, then np.minimum(survival_time, max_time).
generate_exponential(raw) == [k \in DOMAIN raw |-> Min(raw[k], MaxTime)]

\* add_missing_values(zeros(n), 0.25, 'MCAR'): NaN where the variate is
\* below the missing rate, the input value 0.0 elsewhere.
add_missing_values(raw) ==
    [k \in DOMAIN raw |-> IF 4 * raw[k] < RngMod THEN "nan" ELSE "0.0"]

\* the sampler that Call invokes on a generator of class cls
Sample(cls, raw) ==
    CASE cls = "ContinuousVariableGenerator" -> generate_uniform(raw)
      [] cls = "CategoricalVariableGenerator" -> generate_binary(raw)
      [] cls = "SurvivalDataGenerator" -> generate_exponential(raw)
      [] cls = "RealismEnhancer" -> add_missing_values(raw)

(***************************************************************************)
(* Floating-point values: a finite number is an exact rational n/d (d > 0),*)
(* and the two special values the scripts can produce are +inf and NaN.    *)
(* Comparisons follow IEEE 754: every comparison with NaN is false.        *)
(***************************************************************************)
Num(n, d) == [k |-> "num", n |-> n, d |-> d]
NaN == [k |-> "nan", n |-> 0, d |-> 1]
Inf == [k |-> "inf", n |-> 0, d |-> 1]
Zero == Num(0, 1)
IsNum(x) == x.k = "num"

FEq(x, y) ==
    CASE x.k = "nan" \/ y.k = "nan" -> FALSE
      [] x.k = "inf" \/ y.k = "inf" -> x.k = y.k
      [] OTHER -> x.n * y.d = y.n * x.d
FLt(x, y) ==
    CASE x.k = "nan" \/ y.k = "nan" -> FALSE
      [] x.k = "inf" -> FALSE
      [] y.k = "inf" -> TRUE
      [] OTHER -> x.n * y.d < y.n * x.d
FLe(x, y) ==
    CASE x.k = "nan" \/ y.k = "nan" -> FALSE
      [] y.k = "inf" -> TRUE
      [] x.k = "inf" -> FALSE
      [] OTHER -> x.n * y.d <= y.n * x.d
FGe(x, y) == FLe(y, x)
FAbs(x) == IF IsNum(x) THEN Num(Abs(x.n), x.d) ELSE x
\* x - y and x / y for a finite y (y # 0 for the quotient)
FSub(x, y) == IF IsNum(x) THEN Num(x.n * y.d - y.n * x.d, x.d * y.d) ELSE x
FDiv(x, y) ==
    IF IsNum(x) THEN Num(x.n * y.d * (IF y.n < 0 THEN -1 ELSE 1), x.d * Abs(y.n)) ELSE x
FMul(x, y) == IF IsNum(x) THEN Num(x.n * y.n, x.d * y.d) ELSE x
FAdd(x, y) == IF IsNum(x) THEN Num(x.n * y.d + y.n * x.d, x.d * y.d) ELSE x

\* all sequences over S of length 0..n
SeqsUpTo(S, n) == UNION {[1..m -> S] : m \in 0..n}
\* the elements of s at the positions where test holds, in order (s[mask])
RECURSIVE SelectIdx(_, _)
SelectIdx(s, keep) ==
    IF s = <<>> THEN <<>>
    ELSE LET rest == SelectIdx(SubSeq(s, 1, Len(s) - 1),
                               keep)
         IN IF Len(s) \in keep THEN Append(rest, s[Len(s)]) ELSE rest
RECURSIVE SumSeq(_)
SumSeq(s) == IF s = <<>> THEN 0 ELSE s[Len(s)] + SumSeq(SubSeq(s, 1, Len(s) - 1))
\* np.mean: NaN for an empty array
Mean(s) == IF s = <<>> THEN NaN ELSE Num(SumSeq(s), Len(s))
\* the k-th smallest element of a non-empty sequence of integers
KthSmallest(s, k) ==
    CHOOSE v \in {s[i] : i \in DOMAIN s} :
        /\ Cardinality({i \in DOMAIN s : s[i] < v}) < k
        /\ Cardinality({i \in DOMAIN s : s[i] <= v}) >= k
\* np.median: NaN for an empty array
Median(s) ==
    IF s = <<>> THEN NaN
    ELSE IF Len(s) % 2 = 1 THEN Num(KthSmallest(s, (Len(s) + 1) \div 2), 1)
    ELSE Num(KthSmallest(s, Len(s) \div 2) + KthSmallest(s, Len(s) \div 2 + 1), 2)

(***************************************************************************)
(* Part 2.  StatisticalValidator.                                          *)
(***************************************************************************)
\* bounds of the exploration: lengths of the arrays given to the validator
MaxObs == 2
MaxPairs == 5

\* p-values scipy may return, around the default alpha = 0.05
Alpha == Num(1, 20)
PNumbers == {Num(1, 100), Num(1, 20), Num(1, 2)}
Tolerances == {Num(1, 5), Num(1, 2)}
Expecteds == {Zero, Num(1, 1), Num(2, 1)}
DataValues == {0, 1, 2}

\* StatisticalValidator._check_value
CheckValueStrict(actual, expected, tol) ==
    IF FEq(expected, Zero) THEN FLt(FAbs(actual), tol)
    ELSE FLt(FDiv(FAbs(FSub(actual, expected)), FAbs(expected)), tol)
CheckValue(actual, expected, tol) ==
    IF FEq(expected, Zero) THEN FLt(FAbs(actual), tol)
    ELSE LET relative_error == FDiv(FAbs(FSub(actual, expected)), FAbs(expected))
         IN FLe(relative_error, tol)

\* the significance check of validate_mean_difference and validate_correlation
SigOk(p_value, expected_significant, alpha) ==
    IF expected_significant THEN FLt(Val(p_value), alpha) ELSE FGe(Val(p_value), alpha)

\* the significance check of validate_odds_ratio and validate_hazard_ratio,
\* where p_value may be None
SigOkOptLenient(p_value, expected_significant, alpha) ==
    IF p_value # None THEN SigOk(p_value, expected_significant, alpha)
    ELSE ~expected_significant
SigOkOpt(p_value, expected_significant, alpha) ==
    IF p_value # None THEN SigOk(p_value, expected_significant, alpha)
    ELSE FALSE

ValidationResult(passed, metric, expected, actual, tol, p_value) ==
    [passed |-> passed, metric_name |-> metric, expected_value |-> expected,
     actual_value |-> actual, tolerance |-> tol, p_value |-> p_value]

\* the arguments of a call: x is the data, one record per observation, with
\*   v: data / time      g: group / exposure      e: outcome / event
Obs == [v : DataValues, g : {0, 1}, e : {0, 1}]
Args(fn, x, method) ==
    [fn : {fn}, x : x, method : method, expected : Expecteds,
     expected_significant : BOOLEAN, alpha : {Alpha}, tolerance : Tolerances]
ValInputs ==
    Args("validate_mean_difference",
         SeqsUpTo([v : DataValues, g : {0, 1}, e : {0}], MaxObs), {"-"})
    \cup Args("validate_odds_ratio",
         SeqsUpTo([v : {0}, g : {0, 1}, e : {0, 1}], MaxPairs), {"-"})
    \cup Args("validate_correlation",
         SeqsUpTo([v : {0}, g : {0}, e : {0}], MaxObs + 2), {"pearson", "spearman", "kendall"})
    \cup Args("validate_hazard_ratio",
         SeqsUpTo([v : DataValues, g : {0, 1}, e : {0, 1}], MaxObs), {"-"})

Idx(x, g, e) == {i \in DOMAIN x : x[i].g = g /\ x[i].e = e}
Values(x, keep) == LET picked == SelectIdx(x, keep) IN [i \in DOMAIN picked |-> picked[i].v]

\* the new result put in place of the list
ReturnReplacing(result) ==
    /\ results' = <<result>>
    /\ vret' = "returned"
    /\ UNCHANGED <<vin, rngVars, censVars, effVars, oddsVars, fnVars>>

\* self.results.append(result); return result
Return(result) ==
    /\ results' = Append(results, result)
    /\ vret' = "returned"
    /\ UNCHANGED <<vin, rngVars, censVars, effVars, oddsVars, fnVars>>

validate_mean_difference ==
    /\ vret = "pending" /\ vin.fn = "validate_mean_difference"
    /\ LET group0 == Values(vin.x, {i \in DOMAIN vin.x : vin.x[i].g = 0})
           group1 == Values(vin.x, {i \in DOMAIN vin.x : vin.x[i].g = 1})
           actual_diff == IF group0 = <<>> \/ group1 = <<>> THEN NaN
                          ELSE FSub(Mean(group1), Mean(group0))
       IN \E p \in (IF group0 = <<>> \/ group1 = <<>> THEN {} ELSE PNumbers) \cup {NaN} :
            LET p_value == Some(p)
                diff_ok == CheckValue(actual_diff, vin.expected, vin.tolerance)
                sig_ok == SigOk(p_value, vin.expected_significant, vin.alpha)
            IN Return(ValidationResult(diff_ok /\ sig_ok, "mean_difference",
                                       vin.expected, actual_diff, vin.tolerance, p_value))

validate_odds_ratio ==
    /\ vret = "pending" /\ vin.fn = "validate_odds_ratio"
    /\ LET a == Cardinality(Idx(vin.x, 1, 1))
           b == Cardinality(Idx(vin.x, 1, 0))
           c == Cardinality(Idx(vin.x, 0, 1))
           d == Cardinality(Idx(vin.x, 0, 0))
           actual_or == IF b = 0 \/ c = 0
                        THEN (IF a * d > 0 THEN Inf ELSE Zero)
                        ELSE Num(a * d, b * c)
           defined == a > 0 /\ b > 0 /\ c > 0 /\ d > 0
       IN \E p \in (IF defined THEN {Some(q) : q \in PNumbers} ELSE {None}) :
            LET or_ok == CheckValue(actual_or, vin.expected, vin.tolerance)
                sig_ok == SigOkOpt(p, vin.expected_significant, vin.alpha)
            IN Return(ValidationResult(or_ok /\ sig_ok, "odds_ratio",
                                       vin.expected, actual_or, vin.tolerance, p))

\* scipy's pearsonr / spearmanr give the coefficient and its p-value
RValues == {Num(-1, 1), Zero, Num(1, 2), Num(1, 1), NaN}
validate_correlation ==
    /\ vret = "pending" /\ vin.fn = "validate_correlation"
    /\ IF vin.method \notin {"pearson", "spearman"}
       THEN /\ vret' = "raised"
            /\ UNCHANGED <<vin, results, rngVars, censVars, effVars, oddsVars, fnVars>>
       ELSE \E actual_r \in RValues, p \in PNumbers \cup {NaN} :
            LET p_value == Some(p)
                r_ok == CheckValue(actual_r, vin.expected, vin.tolerance)
                sig_ok == SigOk(p_value, vin.expected_significant, vin.alpha)
            IN Return(ValidationResult(r_ok /\ sig_ok, "correlation",
                                       vin.expected, actual_r, vin.tolerance, p_value))

validate_hazard_ratio ==
    /\ vret = "pending" /\ vin.fn = "validate_hazard_ratio"
    /\ LET time0 == Values(vin.x, Idx(vin.x, 0, 1))
           time1 == Values(vin.x, Idx(vin.x, 1, 1))
           median0 == Median(time0)
           median1 == Median(time1)
           actual_hr == IF Len(time0) > 0 /\ Len(time1) > 0
                        THEN (IF FLt(Zero, median1) THEN FDiv(median0, median1) ELSE Inf)
                        ELSE Num(1, 1)
           arm0 == {i \in DOMAIN vin.x : vin.x[i].g = 0}
           arm1 == {i \in DOMAIN vin.x : vin.x[i].g = 1}
           \* mannwhitneyu on an empty arm raises (caught: None) or gives NaN
       IN \E p \in (IF arm0 = {} \/ arm1 = {} THEN {None, Some(NaN)}
                    ELSE {Some(q) : q \in PNumbers}) :
            LET hr_ok == CheckValue(actual_hr, vin.expected, vin.tolerance)
                sig_ok == SigOkOpt(p, vin.expected_significant, vin.alpha)
            IN Return(ValidationResult(hr_ok /\ sig_ok, "hazard_ratio",
                                       vin.expected, actual_hr, vin.tolerance, p))

ValInit ==
    /\ vin \in ValInputs
    /\ results = <<>>
    /\ vret = "pending"
    /\ RngIdle /\ CensIdle /\ EffIdle /\ OddsIdle /\ FnIdle

ValNext ==
    \/ validate_mean_difference
    \/ validate_odds_ratio
    \/ validate_correlation
    \/ validate_hazard_ratio

RngInit ==
    /\ rng \in 0..(RngMod - 1)
    /\ gens = <<>>
    /\ log = <<>>
    /\ ValIdle /\ CensIdle /\ EffIdle /\ OddsIdle /\ FnIdle

\* g = Class(random_seed)
Construct(cls, seed) ==
    /\ Len(gens) < MaxGens
    /\ Len(log) < MaxLog
    /\ rng' = InitState(rng, seed)
    /\ gens' = Append(gens, [cls |-> cls, random_seed |-> seed])
    /\ log' = Append(log, [gen |-> Len(gens) + 1, op |-> "init", n |-> 0, out |-> <<>>])
    /\ UNCHANGED <<valVars, censVars, effVars, oddsVars, fnVars>>

\* g.generate_*(n, ...): draws n variates from the global state.
Call(g, n) ==
    /\ g \in DOMAIN gens
    /\ Len(log) < MaxLog
    /\ rng' = StateAfter(rng, n)
    /\ log' = Append(log, [gen |-> g, op |-> "sample", n |-> n,
                           out |-> Sample(gens[g].cls, RawDraws(rng, n))])
    /\ UNCHANGED <<gens, valVars, censVars, effVars, oddsVars, fnVars>>

\* generate_continuous_variable(n, 'uniform', random_seed=seed): constructs a
\* generator and draws from it once.
generate_continuous_variable(n, seed) ==
    LET g == Len(gens) + 1
        s0 == InitState(rng, seed)
    IN  /\ Len(gens) < MaxGens
        /\ Len(log) + 2 <= MaxLog
        /\ rng' = StateAfter(s0, n)
        /\ gens' = Append(gens, [cls |-> "ContinuousVariableGenerator", random_seed |-> seed])
        /\ log' = log \o << [gen |-> g, op |-> "init", n |-> 0, out |-> <<>>],
                            [gen |-> g, op |-> "sample", n |-> n,
                             out |-> Sample("ContinuousVariableGenerator", RawDraws(s0, n))] >>
        /\ UNCHANGED <<valVars, censVars, effVars, oddsVars, fnVars>>

RngNext ==
    \/ \E cls \in Classes, seed \in Seeds \cup {None} : Construct(cls, seed)
    \/ \E g \in 1..MaxGens, n \in Sizes : Call(g, n)
    \/ \E n \in Sizes, seed \in Seeds \cup {None} : generate_continuous_variable(n, seed)

SpecRng == RngInit /\ [][RngNext]_vars

SpecValidate == ValInit /\ [][ValNext]_vars

\* ---- reading the log ----
\* positions of the log that belong to generator g
PosOf(g) == {p \in DOMAIN log : log[p].gen = g}
\* positions of g's sampler calls
CallsOf(g) == {p \in PosOf(g) : log[p].op = "sample"}
\* the k-th sampler call of g (as a log position)
NthCall(g, k) == CHOOSE p \in CallsOf(g) : Cardinality({q \in CallsOf(g) : q <= p}) = k
NumCalls(g) == Cardinality(CallsOf(g))
\* nothing but g touched the random state between g's construction and its last call
Undisturbed(g) ==
    \A p \in PosOf(g), q \in PosOf(g) : \A r \in p..q : log[r].gen = g

RECURSIVE PrivateState(_, _)
PrivateState(g, k) ==
    IF k = 0 THEN SeedState(0, Val(gens[g].random_seed))
    ELSE StateAfter(PrivateState(g, k - 1), log[NthCall(g, k)].n)
PrivateOut(g, k) ==
    Sample(gens[g].cls, RawDraws(PrivateState(g, k - 1), log[NthCall(g, k)].n))

\* C2: no two generator instances share random state: what a seeded instance
\* returns is what it returns when no other instance is constructed or
\* draws between its calls.
C2_Isolation ==
    \A g \in DOMAIN gens :
        gens[g].random_seed # None
        => \A k \in 1..NumCalls(g) : log[NthCall(g, k)].out = PrivateOut(g, k)

\* ---- the validator's claims ----
LastResult == results[Len(results)]
\* |actual - expected| <= tolerance * |expected|, over the reals
WithinRelative(actual, expected, tol) ==
    /\ IsNum(actual)
    /\ Abs(actual.n * expected.d - expected.n * actual.d) * tol.d
         <= tol.n * Abs(expected.n) * actual.d
\* |actual| < tolerance
WithinAbsolute(actual, tol) ==
    IsNum(actual) /\ Abs(actual.n) * tol.d < tol.n * actual.d
\* p_value < alpha, false when there is no p-value to compare
Significant(p_value, alpha) ==
    /\ p_value # None
    /\ IsNum(Val(p_value))
    /\ Val(p_value).n * alpha.d < alpha.n * Val(p_value).d
HasPValue(p_value) == p_value # None /\ IsNum(Val(p_value))

\* C3 as stated: for every expected value, 0 included, passed holds exactly
\* when |actual - expected| <= tolerance * |expected| and (p_value < alpha)
\* equals expected_significant.
C3_PassCriterionAsStated ==
    vret = "returned" =>
        (LastResult.passed <=>
            /\ WithinRelative(LastResult.actual_value, LastResult.expected_value,
                              LastResult.tolerance)
            /\ Significant(LastResult.p_value, vin.alpha) = vin.expected_significant)

\* C3 amended: passed holds exactly when the magnitude is within tolerance
\* (|actual - expected| <= tolerance * |expected| for expected # 0, and
\* |actual| < tolerance for expected = 0) and the p-value is a number (neither
\* None nor NaN) with (p_value < alpha) equal to expected_significant.
C3_PassCriterion ==
    vret = "returned" =>
        (LastResult.passed <=>
            /\ IF LastResult.expected_value.n = 0
               THEN WithinAbsolute(LastResult.actual_value, LastResult.tolerance)
               ELSE WithinRelative(LastResult.actual_value, LastResult.expected_value,
                                   LastResult.tolerance)
            /\ HasPValue(LastResult.p_value)
            /\ Significant(LastResult.p_value, vin.alpha) = vin.expected_significant)

\* a call passed on a relative error exactly at the tolerance, with a
\* non-significant p-value expected and found
C3_Witness ==
    /\ vret = "returned"
    /\ LastResult.passed
    /\ LastResult.expected_value.n # 0
    /\ ~vin.expected_significant
    /\ FEq(FAbs(FSub(LastResult.actual_value, LastResult.expected_value)),
           FMul(LastResult.tolerance, LastResult.expected_value))

\* the cells of the 2x2 table of a validate_odds_ratio call
Cells == {Cardinality(Idx(vin.x, g, e)) : g \in {0, 1}, e \in {0, 1}}
ZeroCellCall == vin.fn = "validate_odds_ratio" /\ 0 \in Cells

\* C4: validate_odds_ratio on a table with a zero cell returns, without
\* raising, a result whose p_value is None and whose passed is false.
C4_ZeroCellNotPassed ==
    (ZeroCellCall /\ vret # "pending") =>
        /\ vret = "returned"
        /\ LastResult.p_value = None
        /\ ~LastResult.passed

\* a zero-cell call whose odds ratio is within tolerance of the expected one
\* (both 0), for a non-significant expectation, and still not passed
C4_Witness ==
    /\ ZeroCellCall /\ vret = "returned"
    /\ vin.x # <<>>
    /\ ~vin.expected_significant
    /\ CheckValue(LastResult.actual_value, LastResult.expected_value, LastResult.tolerance)
    /\ LastResult.p_value = None
    /\ ~LastResult.passed

(***************************************************************************)
(* Part 3.  SurvivalDataGenerator.generate_censoring.                      *)
(* Times are exact multiples of 1/TimeUnit, held as integers; a censoring  *)
(* rate is a number of quarters.                                           *)
(***************************************************************************)
\* bound of the exploration: the length of survival_time
MaxSurv == 2

TimeUnit == 4 * 5
SurvivalTimes == {0, TimeUnit, 2 * TimeUnit}
Followups == {None, Some(TimeUnit), Some(2 * TimeUnit)}
RateDen == 2 * 2
Rates == {0, 1, 2, RateDen}
CensoringTypes == {"random", "administrative", "mixed", "interval"}
\* np.random.uniform(0, high, n): each variate is one of the quarters of [0, high)
Quarters == 0..3
Uniform(u, high) == (u * high) \div 4

MaxOf(s) == CHOOSE v \in {s[i] : i \in DOMAIN s} : \A i \in DOMAIN s : s[i] <= v

\* np.percentile(s, 100 * q) for q = qnum / RateDen, by linear interpolation
\* between the order statistics around position (n - 1) * q
Percentile(s, qnum) ==
    LET n == Len(s)
        h == (n - 1) * qnum
        lo == h \div RateDen + 1
        hi == Min(lo + 1, n)
    IN KthSmallest(s, lo)
         + ((h % RateDen) * (KthSmallest(s, hi) - KthSmallest(s, lo))) \div RateDen

\* the cutoff of administrative censoring
AdminCutoffFromMax(survival_time, censoring_rate, max_followup) ==
    IF max_followup # None THEN Val(max_followup)
    ELSE (MaxOf(survival_time) * 3) \div 2
AdminCutoff(survival_time, censoring_rate, max_followup) ==
    IF max_followup # None THEN Val(max_followup)
    ELSE Percentile(survival_time, RateDen - censoring_rate)

\* event = (survival_time <= censoring_time).astype(int)
EventStrict(t, c) == IF t < c THEN 1 ELSE 0
Event(t, c) == IF t <= c THEN 1 ELSE 0

\* generate_censoring with a random censoring time that is drawn from an
\* interval shortened by the censoring rate
generate_censoring_by_rate(survival_time, censoring_rate, censoring_type, max_followup, u, mix) ==
    LET n == Len(survival_time)
        followup ==
            CASE censoring_type = "random" ->
                   IF max_followup # None THEN Val(max_followup)
                   ELSE (MaxOf(survival_time) * 3) \div 2
              [] censoring_type = "administrative" ->
                   AdminCutoff(survival_time, censoring_rate, max_followup)
              [] censoring_type = "mixed" ->
                   IF max_followup # None THEN Val(max_followup)
                   ELSE (MaxOf(survival_time) * 6) \div 5
        censoring_time ==
            CASE censoring_type = "random" ->
                   [i \in 1..n |-> Uniform(u[i], (followup * 2 * (RateDen - censoring_rate)) \div RateDen)]
              [] censoring_type = "administrative" ->
                   [i \in 1..n |-> followup]
              [] censoring_type = "mixed" ->
                   [i \in 1..n |-> IF mix[i] = 1 THEN Uniform(u[i], (followup * 2 * (RateDen - censoring_rate)) \div RateDen)
                                   ELSE followup]
    IN IF censoring_type \notin {"random", "administrative", "mixed"}
       THEN [fn |-> "raised"]
       ELSE [fn |-> "returned",
             max_followup |-> followup,
             censoring_time |-> censoring_time,
             observed_time |-> [i \in 1..n |-> Min(survival_time[i], censoring_time[i])],
             event |-> [i \in 1..n |-> Event(survival_time[i], censoring_time[i])]]

\* generate_censoring, given the variates u (uniform) and mix (binomial) that
\* np.random hands out during the call
generate_censoring(survival_time, censoring_rate, censoring_type, max_followup, u, mix) ==
    LET n == Len(survival_time)
        followup ==
            CASE censoring_type = "random" ->
                   IF max_followup # None THEN Val(max_followup)
                   ELSE (MaxOf(survival_time) * 3) \div 2
              [] censoring_type = "administrative" ->
                   AdminCutoff(survival_time, censoring_rate, max_followup)
              [] censoring_type = "mixed" ->
                   IF max_followup # None THEN Val(max_followup)
                   ELSE (MaxOf(survival_time) * 6) \div 5
        censoring_time ==
            CASE censoring_type = "random" ->
                   [i \in 1..n |-> Uniform(u[i], followup * 2)]
              [] censoring_type = "administrative" ->
                   [i \in 1..n |-> followup]
              [] censoring_type = "mixed" ->
                   [i \in 1..n |-> IF mix[i] = 1 THEN Uniform(u[i], followup * 2)
                                   ELSE followup]
    IN IF censoring_type \notin {"random", "administrative", "mixed"}
       THEN [fn |-> "raised"]
       ELSE [fn |-> "returned",
             max_followup |-> followup,
             censoring_time |-> censoring_time,
             observed_time |-> [i \in 1..n |-> Min(survival_time[i], censoring_time[i])],
             event |-> [i \in 1..n |-> Event(survival_time[i], censoring_time[i])]]

CensInputs ==
    [fn : {"generate_censoring"},
     survival_time : UNION {[1..m -> SurvivalTimes] : m \in 1..MaxSurv},
     censoring_rate : Rates,
     censoring_type : CensoringTypes,
     max_followup : Followups]

CensInit ==
    /\ cin \in CensInputs
    /\ cout = NoCall
    /\ RngIdle /\ ValIdle /\ EffIdle /\ OddsIdle /\ FnIdle

\* the variates a call of the given type consumes
Variates(censoring_type, n) ==
    [u : IF censoring_type \in {"random", "mixed"} THEN [1..n -> Quarters]
         ELSE {[i \in 1..n |-> 0]},
     mix : IF censoring_type = "mixed" THEN [1..n -> {0, 1}] ELSE {[i \in 1..n |-> 0]}]

CallCensoring ==
    /\ cin # NoCall /\ cout = NoCall
    /\ \E r \in Variates(cin.censoring_type, Len(cin.survival_time)) :
         cout' = generate_censoring(cin.survival_time, cin.censoring_rate,
                                    cin.censoring_type, cin.max_followup, r.u, r.mix)
    /\ UNCHANGED <<cin, rngVars, valVars, effVars, oddsVars, fnVars>>

CensNext == CallCensoring

SpecCensoring == CensInit /\ [][CensNext]_vars

\* ---- the claims about censoring ----
Returned == cout # NoCall /\ cout.fn = "returned"
Records == DOMAIN cin.survival_time

\* C5: for every censoring type and every non-negative survival_time, each
\* observed_time is >= 0 and <= the configured max_followup.
C5_ObservedWithinFollowup ==
    Returned =>
        \A i \in DOMAIN cout.observed_time :
            /\ cout.observed_time[i] >= 0
            /\ cout.observed_time[i] <= cout.max_followup

\* C6: observed_time = min(survival_time, censoring_time) and event = 1
\* exactly when survival_time <= censoring_time; so an event record carries
\* the true survival time and a censored one a strictly smaller time; both
\* arrays have the length of the input.
C6_ObservedIsMinimum ==
    Returned =>
        /\ Len(cout.observed_time) = Len(cin.survival_time)
        /\ Len(cout.event) = Len(cin.survival_time)
        /\ \A i \in Records :
            /\ cout.observed_time[i] <= cin.survival_time[i]
            /\ cout.observed_time[i] <= cout.censoring_time[i]
            /\ cout.observed_time[i] \in {cin.survival_time[i], cout.censoring_time[i]}
            /\ cout.event[i] \in {0, 1}
            /\ cout.event[i] = 1 <=> cin.survival_time[i] <= cout.censoring_time[i]
            /\ cout.event[i] = 1 => cout.observed_time[i] = cin.survival_time[i]
            /\ cout.event[i] = 0 => cout.observed_time[i] < cin.survival_time[i]

\* a returned call with an event record, a censored record and a tie
\* (survival_time = censoring_time, which counts as an event)
C6_Witness ==
    /\ Returned
    /\ \E i \in Records : cout.event[i] = 0
    /\ \E i \in Records :
         cout.event[i] = 1 /\ cin.survival_time[i] = cout.censoring_time[i]

\* the administrative cutoff the claim names: the given max_followup, or the
\* 100 * (1 - censoring_rate) percentile of survival_time
SortedTimes ==
    [k \in Records |-> KthSmallest(cin.survival_time, k)]
NamedCutoffTimes4 ==
    IF cin.max_followup # None THEN RateDen * Val(cin.max_followup)
    ELSE LET n == Len(cin.survival_time)
             h == (n - 1) * (RateDen - cin.censoring_rate)
             lo == h \div RateDen + 1
         IN IF h % RateDen = 0 THEN RateDen * SortedTimes[lo]
            ELSE (RateDen - (h % RateDen)) * SortedTimes[lo]
                   + (h % RateDen) * SortedTimes[lo + 1]

\* C7: with administrative censoring every observed_time is <= the cutoff and
\* the censored records are exactly those whose survival_time exceeds it.
C7_AdministrativeCutoff ==
    (Returned /\ cin.censoring_type = "administrative") =>
        \A i \in Records :
            /\ RateDen * cout.observed_time[i] <= NamedCutoffTimes4
            /\ cout.event[i] = 0 <=> RateDen * cin.survival_time[i] > NamedCutoffTimes4

\* an administrative call without max_followup whose percentile cutoff lies
\* strictly between two survival times and censors one of them
C7_Witness ==
    /\ Returned /\ cin.censoring_type = "administrative"
    /\ cin.max_followup = None
    /\ \E i \in Records : cout.event[i] = 0 /\ cout.observed_time[i] > 0
    /\ \E i \in Records : cout.event[i] = 1
    /\ \A i \in Records : RateDen * cin.survival_time[i] # NamedCutoffTimes4

(***************************************************************************)
(* Part 4.  ContinuousVariableGenerator.adjust_effect_size.                *)
(* Cohen's d of the data is a square root: it is held as its sign and its  *)
(* square, and a value that depends on it as r + c / d with r, c rational. *)
(***************************************************************************)
\* bound of the exploration: the length of data and group
MaxData == 4

DataPoints == {0, 1}
Groups == {0, 1, 2}
Targets == {Zero, Num(1, 1), Num(-1, 2)}
Currents == {None, Some(Zero), Some(Num(1, 1)), Some(Num(2, 1))}

\* data[mask] for a set of positions
At(data, mask) == SelectIdx(data, mask)
\* n * sum of squared deviations from the mean (an integer)
SumSq(s) == Len(s) * SumSeq([i \in DOMAIN s |-> s[i] * s[i]]) - SumSeq(s) * SumSeq(s)

\* _calculate_cohens_d: (mean1 - mean0) / pooled_std with ddof = 1 variances.
\*   "nan"  a group with fewer than two values, or 0 / 0
\*   "inf"  a non-zero difference over a zero pooled_std
\*   "num"  the value 0
\*   "fin"  a finite non-zero value, of sign n and square sqn / sqd
CohensD(data, group) ==
    LET group0 == At(data, {i \in DOMAIN data : group[i] = 0})
        group1 == At(data, {i \in DOMAIN data : group[i] = 1})
        n0 == Len(group0)
        n1 == Len(group1)
        diff == SumSeq(group1) * n0 - SumSeq(group0) * n1
        pooled == SumSq(group0) * n1 + SumSq(group1) * n0
    IN CASE n0 < 2 \/ n1 < 2 -> NaN
         [] pooled = 0 /\ diff = 0 -> NaN
         [] pooled = 0 /\ diff # 0 -> Inf
         [] pooled # 0 /\ diff = 0 -> Zero
         [] OTHER -> [k |-> "fin", n |-> IF diff > 0 THEN 1 ELSE -1, d |-> 1,
                      sqn |-> diff * diff * (n0 + n1 - 2), sqd |-> n0 * n1 * pooled]

\* r + c / d for the Cohen's d of the call
Sym(r, c) == IF c.n = 0 THEN r
             ELSE [k |-> "sym", n |-> r.n, d |-> r.d, sn |-> c.n, sd |-> c.d]

\* group1_mask = group == 1
Mask1NotZero(group) == {i \in DOMAIN group : group[i] # 0}
Mask1(group) == {i \in DOMAIN group : group[i] = 1}

\* the group-1 values multiplied by the adjustment factor
RescaleValues(data, group, target, current) ==
    LET group1_mask == Mask1(group)
        others == DOMAIN data \ group1_mask
        mean_diff == IF group1_mask = {} \/ others = {} THEN NaN
                     ELSE FSub(Mean(At(data, group1_mask)), Mean(At(data, others)))
        moved(x) ==
            CASE ~IsNum(mean_diff) -> NaN
              [] current.k = "nan" -> NaN
              [] current.k = "inf" -> FSub(Num(x, 1), mean_diff)
              [] current.k = "num" -> FMul(Num(x, 1), FDiv(target, current))
              [] current.k = "fin" -> Sym(Zero, FMul(Num(x, 1), target))
    IN [fn |-> "returned", same_object |-> FALSE, current |-> current,
        out |-> [i \in DOMAIN data |->
                    IF i \in group1_mask THEN moved(data[i]) ELSE Num(data[i], 1)]]

\* lines 260-276: the group-1 values moved by new_mean_diff - mean_diff, for
\* a current effect size that is not 0
Rescale(data, group, target, current) ==
    LET group1_mask == Mask1(group)
        others == DOMAIN data \ group1_mask
        mean_diff == IF group1_mask = {} \/ others = {} THEN NaN
                     ELSE FSub(Mean(At(data, group1_mask)), Mean(At(data, others)))
        moved(x) ==
            CASE ~IsNum(mean_diff) -> NaN
              [] current.k = "nan" -> NaN
              [] current.k = "inf" -> FSub(Num(x, 1), mean_diff)
              [] current.k = "num" ->
                    FAdd(FSub(Num(x, 1), mean_diff),
                         FMul(mean_diff, FDiv(target, current)))
              [] current.k = "fin" ->
                    Sym(FSub(Num(x, 1), mean_diff), FMul(mean_diff, target))
    IN [fn |-> "returned", same_object |-> FALSE, current |-> current,
        out |-> [i \in DOMAIN data |->
                    IF i \in group1_mask THEN moved(data[i]) ELSE Num(data[i], 1)]]

EffectSize(data, group, current_effect_size) ==
    IF current_effect_size = None THEN CohensD(data, group)
    ELSE Val(current_effect_size)

adjust_effect_size_unguarded(data, group, target_effect_size, current_effect_size) ==
    LET current == EffectSize(data, group, current_effect_size)
    IN Rescale(data, group, target_effect_size,
               IF FEq(current, Zero) THEN NaN ELSE current)
adjust_effect_size(data, group, target_effect_size, current_effect_size) ==
    LET current == EffectSize(data, group, current_effect_size)
    IN IF FEq(current, Zero)
       THEN [fn |-> "returned", same_object |-> TRUE, current |-> current,
             out |-> [i \in DOMAIN data |-> Num(data[i], 1)]]
       ELSE Rescale(data, group, target_effect_size, current)

EffInputs ==
    UNION {[fn : {"adjust_effect_size"}, data : [1..m -> DataPoints],
            group : [1..m -> Groups], target : Targets, current : Currents]
           : m \in 0..MaxData}

EffInit ==
    /\ ein \in EffInputs
    /\ eout = NoCall
    /\ RngIdle /\ ValIdle /\ CensIdle /\ OddsIdle /\ FnIdle

CallAdjustEffect ==
    /\ ein # NoCall /\ eout = NoCall
    /\ eout' = adjust_effect_size(ein.data, ein.group, ein.target, ein.current)
    /\ UNCHANGED <<ein, rngVars, valVars, censVars, oddsVars, fnVars>>

EffNext == CallAdjustEffect

SpecEffect == EffInit /\ [][EffNext]_vars

\* ---- the claims about adjust_effect_size ----
EffReturned == eout # NoCall /\ eout.fn = "returned"
\* the returned value at i is the input value at i
SameAsInput(i) == eout.out[i].k = "num" /\ eout.out[i].n = ein.data[i] * eout.out[i].d
\* the current effect size is 0: passed as 0, or no value passed and the
\* two groups have equal means and a non-zero pooled standard deviation
GroupValues(g) == At(ein.data, {i \in DOMAIN ein.data : ein.group[i] = g})
CurrentIsZero ==
    IF ein.current # None THEN Val(ein.current).n = 0
    ELSE /\ Len(GroupValues(0)) >= 2 /\ Len(GroupValues(1)) >= 2
         /\ SumSeq(GroupValues(1)) * Len(GroupValues(0))
              = SumSeq(GroupValues(0)) * Len(GroupValues(1))
         /\ \E g \in {0, 1} : \E i, j \in DOMAIN GroupValues(g) :
                GroupValues(g)[i] # GroupValues(g)[j]

\* C8: when the current effect size is 0, passed or computed, the call
\* returns the input array with every element unchanged, for every target.
C8_ZeroEffectUnchanged ==
    (ein # NoCall /\ eout # NoCall /\ CurrentIsZero) =>
        /\ eout.fn = "returned"
        /\ Len(eout.out) = Len(ein.data)
        /\ \A i \in DOMAIN ein.data : SameAsInput(i)

\* a call whose effect size was computed from the data and found 0, with a
\* non-zero target and group-1 observations that a rescale would have moved
C8_Witness ==
    /\ EffReturned
    /\ ein.current = None /\ CurrentIsZero
    /\ ein.target.n # 0
    /\ \E i \in DOMAIN ein.data : ein.group[i] = 1
    /\ \A i \in DOMAIN ein.data : SameAsInput(i)

\* C9: for every index i with group[i] # 1 the returned value equals
\* data[i], for every target and current effect size.
C9_OnlyGroupOneChanges ==
    EffReturned =>
        /\ Len(eout.out) = Len(ein.data)
        /\ \A i \in DOMAIN ein.data : ein.group[i] # 1 => SameAsInput(i)

\* a call that moved a group-1 value and left group 0 and group 2 alone
C9_Witness ==
    /\ EffReturned
    /\ \E i \in DOMAIN ein.data :
         ein.group[i] = 1 /\ ~SameAsInput(i) /\ eout.out[i].k # "nan"
    /\ \E i \in DOMAIN ein.data : ein.group[i] = 0 /\ SameAsInput(i)
    /\ \E i \in DOMAIN ein.data : ein.group[i] = 2 /\ SameAsInput(i)

(***************************************************************************)
(* Part 5.  CategoricalVariableGenerator.adjust_odds_ratio.                *)
(***************************************************************************)
\* bounds of the exploration: the length of outcome and exposure, and the
\* largest max_iterations
MaxOutcomes == 4
MaxIter == 2

TargetOrs == {Num(1, 2), Num(1, 1), Num(2, 1)}

\* _calculate_odds_ratio without the test of c
OddsRatioGuardB(outcome, exposure) ==
    LET a == Cardinality({i \in DOMAIN outcome : exposure[i] = 1 /\ outcome[i] = 1})
        b == Cardinality({i \in DOMAIN outcome : exposure[i] = 1 /\ outcome[i] = 0})
        c == Cardinality({i \in DOMAIN outcome : exposure[i] = 0 /\ outcome[i] = 1})
        d == Cardinality({i \in DOMAIN outcome : exposure[i] = 0 /\ outcome[i] = 0})
    IN IF b = 0 THEN None ELSE Some(Num(a * d, b * c))
\* _calculate_odds_ratio: None when b or c is 0
OddsRatio(outcome, exposure) ==
    LET a == Cardinality({i \in DOMAIN outcome : exposure[i] = 1 /\ outcome[i] = 1})
        b == Cardinality({i \in DOMAIN outcome : exposure[i] = 1 /\ outcome[i] = 0})
        c == Cardinality({i \in DOMAIN outcome : exposure[i] = 0 /\ outcome[i] = 1})
        d == Cardinality({i \in DOMAIN outcome : exposure[i] = 0 /\ outcome[i] = 0})
    IN IF b = 0 \/ c = 0 THEN None ELSE Some(Num(a * d, b * c))

\* abs(np.log(current_or) - np.log(target_or)) < 0.1, which is
\* exp(-0.1) < current_or / target_or < exp(0.1); the two bounds, to five
\* decimals, as parts of ExpScale.  np.log(0) is -inf, so an odds ratio of 0
\* is never close.
ExpScale == 100000
ExpUpper == 110517
ExpLower == 90484
Close(current_or, target_or) ==
    /\ current_or.n > 0 /\ target_or.n > 0
    /\ current_or.n * target_or.d * ExpScale < ExpUpper * current_or.d * target_or.n
    /\ current_or.n * target_or.d * ExpScale > ExpLower * current_or.d * target_or.n

\* for _ in range(max_iterations)
MoreIterationsOffByOne(i, max_iterations) == i <= max_iterations
MoreIterations(i, max_iterations) == i < max_iterations

OddsInputs ==
    UNION {[fn : {"adjust_odds_ratio"}, outcome : [1..m -> {0, 1}],
            exposure : [1..m -> {0, 1}], target_or : TargetOrs,
            max_iterations : 0..MaxIter]
           : m \in 0..MaxOutcomes}

OddsInit ==
    /\ oin \in OddsInputs
    /\ adjusted = <<>>
    /\ iter = 0
    /\ opc = "start"
    /\ RngIdle /\ ValIdle /\ CensIdle /\ EffIdle /\ FnIdle

OddsFrame == UNCHANGED <<oin, rngVars, valVars, censVars, effVars, fnVars>>

\* adjusted = outcome.copy()
OrCopy ==
    /\ opc = "start"
    /\ adjusted' = oin.outcome
    /\ opc' = "loop"
    /\ UNCHANGED iter
    /\ OddsFrame

\* one iteration whose flip is drawn from every row, exposed or not
OrIterationAnyRow ==
    /\ opc = "loop"
    /\ MoreIterations(iter, oin.max_iterations)
    /\ iter' = iter + 1
    /\ LET current_or == OddsRatio(adjusted, oin.exposure)
           exposed_zeros == {i \in DOMAIN adjusted : adjusted[i] = 0}
           exposed_ones == {i \in DOMAIN adjusted : adjusted[i] = 1}
       IN CASE current_or = None ->
                 /\ opc' = "undefined"
                 /\ UNCHANGED adjusted
            [] current_or # None /\ Close(Val(current_or), oin.target_or) ->
                 /\ opc' = "converged"
                 /\ UNCHANGED adjusted
            [] OTHER ->
                 /\ opc' = "loop"
                 /\ IF FLt(Val(current_or), oin.target_or)
                    THEN IF exposed_zeros # {}
                         THEN \E flip_idx \in exposed_zeros :
                                adjusted' = [adjusted EXCEPT ![flip_idx] = 1]
                         ELSE UNCHANGED adjusted
                    ELSE IF exposed_ones # {}
                         THEN \E flip_idx \in exposed_ones :
                                adjusted' = [adjusted EXCEPT ![flip_idx] = 0]
                         ELSE UNCHANGED adjusted
    /\ OddsFrame

\* one iteration of the loop body
OrIteration ==
    /\ opc = "loop"
    /\ MoreIterations(iter, oin.max_iterations)
    /\ iter' = iter + 1
    /\ LET current_or == OddsRatio(adjusted, oin.exposure)
           exposed_zeros == {i \in DOMAIN adjusted : oin.exposure[i] = 1 /\ adjusted[i] = 0}
           exposed_ones == {i \in DOMAIN adjusted : oin.exposure[i] = 1 /\ adjusted[i] = 1}
       IN CASE current_or = None ->
                 /\ opc' = "undefined"
                 /\ UNCHANGED adjusted
            [] current_or # None /\ Close(Val(current_or), oin.target_or) ->
                 /\ opc' = "converged"
                 /\ UNCHANGED adjusted
            [] OTHER ->
                 /\ opc' = "loop"
                 /\ IF FLt(Val(current_or), oin.target_or)
                    THEN IF exposed_zeros # {}
                         THEN \E flip_idx \in exposed_zeros :
                                adjusted' = [adjusted EXCEPT ![flip_idx] = 1]
                         ELSE UNCHANGED adjusted
                    ELSE IF exposed_ones # {}
                         THEN \E flip_idx \in exposed_ones :
                                adjusted' = [adjusted EXCEPT ![flip_idx] = 0]
                         ELSE UNCHANGED adjusted
    /\ OddsFrame

\* the loop left at any iteration
OrExhaustedEarly ==
    /\ opc = "loop"
    /\ opc' = "exhausted"
    /\ UNCHANGED <<adjusted, iter>>
    /\ OddsFrame

\* the range is used up: the loop ends
OrExhausted ==
    /\ opc = "loop"
    /\ ~MoreIterations(iter, oin.max_iterations)
    /\ opc' = "exhausted"
    /\ UNCHANGED <<adjusted, iter>>
    /\ OddsFrame

OddsNext == OrCopy \/ OrIteration \/ OrExhausted

SpecOdds == OddsInit /\ [][OddsNext]_vars
\* the call runs to its end: nothing suspends a Python loop
SpecOddsFair == SpecOdds /\ WF_vars(OddsNext)

\* ---- the claims about adjust_odds_ratio ----
\* return adjusted
OrReturned == opc \in {"undefined", "converged", "exhausted"}
Differing(s, t) == {i \in DOMAIN s : s[i] # t[i]}

\* C10: adjust_odds_ratio always terminates: it runs at most max_iterations
\* iterations, each iteration flips at most one observation, and the
\* returned array differs from the input in at most max_iterations positions.
C10_BoundedFlips ==
    /\ [](iter <= oin.max_iterations)
    /\ [][opc = "loop" =>
            /\ Len(adjusted') = Len(adjusted)
            /\ Cardinality(Differing(adjusted, adjusted')) <= 1]_vars
    /\ [](OrReturned =>
            /\ Len(adjusted) = Len(oin.outcome)
            /\ Cardinality(Differing(adjusted, oin.outcome)) <= oin.max_iterations)
    /\ <>OrReturned

\* a call that used every one of its two or more iterations to flip an
\* observation and returned
C10_Witness ==
    /\ opc = "exhausted"
    /\ oin.max_iterations >= 2
    /\ iter = oin.max_iterations
    /\ Cardinality(Differing(adjusted, oin.outcome)) = oin.max_iterations

\* a degenerate 2x2 table: no exposed non-events or no unexposed events
Degenerate(outcome, exposure) ==
    \/ ~\E i \in DOMAIN outcome : exposure[i] = 1 /\ outcome[i] = 0
    \/ ~\E i \in DOMAIN outcome : exposure[i] = 0 /\ outcome[i] = 1

\* C11: adjust_odds_ratio never raises on a degenerate table: an iteration
\* that finds the table degenerate ends the loop and leaves the array as it
\* stands, the call returns, and a call whose input table is already
\* degenerate returns an array equal to its input.
C11_DegenerateStops ==
    /\ [][(opc = "loop" /\ iter' = iter + 1 /\ Degenerate(adjusted, oin.exposure))
            => (opc' = "undefined" /\ adjusted' = adjusted)]_vars
    /\ [](opc = "undefined" => Degenerate(adjusted, oin.exposure))
    /\ []((OrReturned /\ Degenerate(oin.outcome, oin.exposure))
            => adjusted = oin.outcome)
    /\ [](Degenerate(oin.outcome, oin.exposure) => <>OrReturned)

\* a call whose table became degenerate through its own flip and that then
\* stopped at the next iteration
C11_Witness ==
    /\ opc = "undefined"
    /\ iter = 2
    /\ ~Degenerate(oin.outcome, oin.exposure)
    /\ Cardinality(Differing(adjusted, oin.outcome)) = 1

\* a call on an already degenerate table that returned from its first iteration
C11_WitnessInput ==
    /\ opc = "undefined"
    /\ iter = 1
    /\ Len(oin.outcome) >= 2
    /\ Degenerate(oin.outcome, oin.exposure)

(***************************************************************************)
(* Part 6.  ContinuousVariableGenerator.generate_group_means.              *)
(***************************************************************************)
\* bounds of the exploration: the length of the n_per_group and group_means
\* lists, and the largest group size
MaxGroups == 2
MaxGroupSize == 2

GroupMeans == {0, 2}
\* np.random.normal(mean, common_std, n): the standardised variates
Normals == {-1, 1}
Cuts == {None, Some(1)}

\* sum(n_per_group[:k])
SizeUpTo(n_per_group, k) == SumSeq([i \in 1..k |-> n_per_group[i]])

\* _truncate: np.maximum(data, min_val), then np.minimum(data, max_val)
Truncate(data, min_val, max_val) ==
    LET low == IF min_val # None
               THEN [j \in DOMAIN data |-> Max(data[j], Val(min_val))] ELSE data
    IN  IF max_val # None
        THEN [j \in DOMAIN low |-> Min(low[j], Val(max_val))] ELSE low

\* generate_group_means, given the standardised variates z it draws.  zip
\* stops at the shorter of its two lists; np.concatenate raises ValueError on
\* an empty list of arrays.
generate_group_means(n_per_group, group_means, common_std, min_val, max_val, z) ==
    LET k == Min(Len(n_per_group), Len(group_means))
        total == SizeUpTo(n_per_group, k)
        \* the 1-based position of the group that row j belongs to
        GroupAt(j) == CHOOSE i \in 1..k :
                        SizeUpTo(n_per_group, i - 1) < j /\ j <= SizeUpTo(n_per_group, i)
        data == [j \in 1..total |-> group_means[GroupAt(j)] + common_std * z[j]]
        groups == [j \in 1..total |-> GroupAt(j) - 1]
    IN  IF k = 0
        THEN [fn |-> "raised"]
        ELSE [fn |-> "returned",
              data |-> IF min_val # None \/ max_val # None
                       THEN Truncate(data, min_val, max_val) ELSE data,
              groups |-> groups]

GroupInputs ==
    [fn : {"generate_group_means"},
     n_per_group : SeqsUpTo(0..MaxGroupSize, MaxGroups),
     group_means : SeqsUpTo(GroupMeans, MaxGroups),
     common_std : {1}, min_val : Cuts, max_val : Cuts]

GroupInit ==
    /\ fin \in GroupInputs
    /\ fout = NoCall
    /\ RngIdle /\ ValIdle /\ CensIdle /\ EffIdle /\ OddsIdle

CallGroupMeans ==
    /\ fin # NoCall /\ fin.fn = "generate_group_means" /\ fout = NoCall
    /\ LET k == Min(Len(fin.n_per_group), Len(fin.group_means))
       IN \E z \in [1..SizeUpTo(fin.n_per_group, k) -> Normals] :
            fout' = generate_group_means(fin.n_per_group, fin.group_means,
                                         fin.common_std, fin.min_val, fin.max_val, z)
    /\ UNCHANGED <<fin, rngVars, valVars, censVars, effVars, oddsVars>>

GroupNext == CallGroupMeans

SpecGroupMeans == GroupInit /\ [][GroupNext]_vars

\* ---- the claim about generate_group_means ----
\* the number of rows whose group index is i
Occurrences(groups, i) == Cardinality({j \in DOMAIN groups : groups[j] = i})

\* C12: generate_group_means returns a values array and a group-index array
\* of equal length, in which group index i occurs exactly n_per_group[i]
\* times and the total length is the sum of n_per_group, for every list of
\* group sizes and with or without truncation.
C12_GroupSizes ==
    fout # NoCall =>
        /\ fout.fn = "returned"
        /\ Len(fout.data) = Len(fout.groups)
        /\ \A i \in DOMAIN fin.n_per_group :
              Occurrences(fout.groups, i - 1) = fin.n_per_group[i]
        /\ Len(fout.data) = SumSeq(fin.n_per_group)

(***************************************************************************)
(* Part 7.  RealismEnhancer.  One call of one operation per behaviour:     *)
(* fin holds the arguments, the action applies the operation with the      *)
(* random variates it draws, fout holds what it returned.                  *)
(***************************************************************************)
\* bound of the exploration: the length of the arrays given to the enhancer
MaxRows == 2

\* np.random.random(n): each variate is 0.0 or 0.75, in quarters
MaskVariates == {0, 3}
\* outlier_rate, error_rate, dropout_rate: 0.0, 0.5 and 1.0, in quarters
RateQuarters == {0, 2, RateDen}

\* np.random.random(n) <= rate
MaskedInclusive(r, rate) == {i \in DOMAIN r : r[i] <= rate}
\* np.random.random(n) < rate: the set of selected rows
Masked(r, rate) == {i \in DOMAIN r : r[i] < rate}
\* the position of row i among the selected rows (result[mask] = values)
RankIn(mask, i) == Cardinality({j \in mask : j <= i})

\* ---- add_outliers ----
OutlierData == {0, 2}
OutlierTypes == {"extreme", "mild", "clinical", "robust"}
\* the default multiplier
Multiplier == 3
\* what is drawn for one outlier: a direction from [-1, 1] and a uniform
\* variate at the start or the middle of its range (u halves of the range)
OutlierDraws == {[dir |-> -1, u |-> 0], [dir |-> 1, u |-> 1]}

\* a value m + c * np.nanstd(data): the standard deviation is kept as a symbol
Lin(m, c) == [m |-> m, c |-> c]

\* np.nanpercentile(data, p) by linear interpolation between the order
\* statistics around position (n - 1) * p / 100
NanPercentile(data, p) ==
    LET n == Len(data)
        h == (n - 1) * p
        lo == h \div 100 + 1
        hi == Min(lo + 1, n)
    IN Num(100 * KthSmallest(data, lo)
             + (h % 100) * (KthSmallest(data, hi) - KthSmallest(data, lo)), 100)

\* one entry of outlier_values
OutlierValue(data, outlier_type, multiplier, draw) ==
    CASE outlier_type = "extreme" ->
            \* mean + directions * uniform(multiplier, multiplier + 1) * std
            Lin(Mean(data), Num(draw.dir * (2 * multiplier + draw.u), 2))
      [] outlier_type = "mild" ->
            \* mean + directions * uniform(2, multiplier) * std
            Lin(Mean(data), Num(draw.dir * (4 + draw.u * (multiplier - 2)), 2))
      [] outlier_type = "clinical" ->
            \* uniform(q01 - range_ext, q99 + range_ext), with the percentiles
            \* in hundredths, the ends of the range in two-hundredths
            LET q01 == NanPercentile(data, 1).n
                q99 == NanPercentile(data, 99).n
                range_ext == q99 - q01
                low == 2 * q01 - range_ext
                high == 2 * q99 + range_ext
            IN Lin(Num(2 * low + (high - low) * draw.u, 400), Zero)

\* add_outliers, given the variates r of the mask and the draws of the outliers
add_outliers(data, outlier_rate, outlier_type, multiplier, r, draws) ==
    LET result == [i \in DOMAIN data |-> Lin(Num(data[i], 1), Zero)]
        outlier_mask == Masked(r, outlier_rate)
        n_outliers == Cardinality(outlier_mask)
    IN  IF n_outliers = 0
        THEN [fn |-> "returned", out |-> result]
        ELSE IF outlier_type \notin {"extreme", "mild", "clinical"}
        THEN [fn |-> "raised"]
        ELSE [fn |-> "returned",
              out |-> [i \in DOMAIN data |->
                         IF i \in outlier_mask
                         THEN OutlierValue(data, outlier_type, multiplier,
                                           draws[RankIn(outlier_mask, i)])
                         ELSE result[i]]]

OutlierInputs ==
    [fn : {"add_outliers"}, data : SeqsUpTo(OutlierData, MaxRows),
     outlier_rate : RateQuarters, outlier_type : OutlierTypes,
     multiplier : {Multiplier}]

OutlierInit ==
    /\ fin \in OutlierInputs
    /\ fout = NoCall
    /\ RngIdle /\ ValIdle /\ CensIdle /\ EffIdle /\ OddsIdle

CallAddOutliers ==
    /\ fin # NoCall /\ fin.fn = "add_outliers" /\ fout = NoCall
    /\ \E r \in [DOMAIN fin.data -> MaskVariates] :
         \E draws \in [1..Cardinality(Masked(r, fin.outlier_rate)) -> OutlierDraws] :
            fout' = add_outliers(fin.data, fin.outlier_rate, fin.outlier_type,
                                 fin.multiplier, r, draws)
    /\ UNCHANGED <<fin, rngVars, valVars, censVars, effVars, oddsVars>>

OutlierNext == CallAddOutliers

SpecOutliers == OutlierInit /\ [][OutlierNext]_vars

\* ---- the claim about add_outliers ----
FnReturned == fout # NoCall /\ fout.fn = "returned"
\* the values add_outliers can generate for this call
GeneratedOutliers ==
    {OutlierValue(fin.data, fin.outlier_type, fin.multiplier, draw) : draw \in OutlierDraws}

\* C13: add_outliers with outlier_rate 0.0 returns an array equal to the
\* input at every index, and with outlier_rate 1.0 every index holds a
\* generated outlier value, for each of 'extreme', 'mild' and 'clinical'.
C13_OutlierRateExtremes ==
    (fout # NoCall /\ fin.outlier_type \in {"extreme", "mild", "clinical"}) =>
        /\ fin.outlier_rate \in {0, RateDen} => fout.fn = "returned"
        /\ fin.outlier_rate = 0 =>
              /\ Len(fout.out) = Len(fin.data)
              /\ \A i \in DOMAIN fin.data : fout.out[i] = Lin(Num(fin.data[i], 1), Zero)
        /\ fin.outlier_rate = RateDen =>
              /\ Len(fout.out) = Len(fin.data)
              /\ \A i \in DOMAIN fin.data : fout.out[i] \in GeneratedOutliers

\* a call at rate 1.0 that replaced both rows of a two-row array by extreme
\* outliers on opposite sides of the mean
C13_Witness ==
    /\ FnReturned
    /\ fin.outlier_rate = RateDen /\ fin.outlier_type = "extreme"
    /\ fin.data = <<0, 2>>
    /\ fout.out = <<Lin(Num(2, 2), Num(-6, 2)), Lin(Num(2, 2), Num(7, 2))>>

\* ---- enforce_range ----
RangeValues == {NaN, Num(-1, 1), Num(1, 1), Num(3, 1)}
RangeBounds == {None, Some(Zero), Some(Num(2, 1))}

\* np.maximum and np.minimum of two floats: NaN propagates
NpMaximum(x, y) == IF x.k = "nan" \/ y.k = "nan" THEN NaN ELSE IF FLt(x, y) THEN y ELSE x
NpMinimum(x, y) == IF x.k = "nan" \/ y.k = "nan" THEN NaN ELSE IF FLt(y, x) THEN y ELSE x

\* enforce_range with the minimum applied before the maximum
enforce_range_max_last(data, min_val, max_val) ==
    LET capped == IF max_val # None
                  THEN [i \in DOMAIN data |-> NpMinimum(data[i], Val(max_val))]
                  ELSE data
    IN  IF min_val # None
        THEN [i \in DOMAIN capped |-> NpMaximum(capped[i], Val(min_val))]
        ELSE capped

\* enforce_range: np.maximum(result, min_val), then np.minimum(result, max_val)
enforce_range(data, min_val, max_val) ==
    LET raised == IF min_val # None
                  THEN [i \in DOMAIN data |-> NpMaximum(data[i], Val(min_val))]
                  ELSE data
    IN  IF max_val # None
        THEN [i \in DOMAIN raised |-> NpMinimum(raised[i], Val(max_val))]
        ELSE raised

RangeInputs ==
    [fn : {"enforce_range"}, data : SeqsUpTo(RangeValues, MaxRows),
     min_val : RangeBounds, max_val : RangeBounds]

RangeInit ==
    /\ fin \in RangeInputs
    /\ fout = NoCall
    /\ RngIdle /\ ValIdle /\ CensIdle /\ EffIdle /\ OddsIdle

\* result = enforce_range(data, min_val, max_val)
CallEnforceRange ==
    /\ fin # NoCall /\ fin.fn = "enforce_range" /\ fout = NoCall
    /\ LET result == enforce_range(fin.data, fin.min_val, fin.max_val)
       IN fout' = [fn |-> "returned", calls |-> 1, first |-> result, out |-> result]
    /\ UNCHANGED <<fin, rngVars, valVars, censVars, effVars, oddsVars>>

\* result = enforce_range(result, min_val, max_val): the call applied to its
\* own result
CallEnforceRangeAgain ==
    /\ fin # NoCall /\ fin.fn = "enforce_range"
    /\ fout # NoCall /\ fout.calls = 1
    /\ fout' = [fout EXCEPT !.calls = 2,
                            !.out = enforce_range(fout.out, fin.min_val, fin.max_val)]
    /\ UNCHANGED <<fin, rngVars, valVars, censVars, effVars, oddsVars>>

RangeNext == CallEnforceRange \/ CallEnforceRangeAgain

SpecRange == RangeInit /\ [][RangeNext]_vars

\* ---- the claim about enforce_range ----
\* x lies in [min_val, max_val], an absent bound being no bound
InRange(x, min_val, max_val) ==
    /\ min_val # None => FGe(x, Val(min_val))
    /\ max_val # None => FLe(x, Val(max_val))

\* C14 as stated: enforce_range is idempotent and every element of its
\* result lies in [lo, hi], for every array and every pair of bounds.
C14_IdempotentInRangeAsStated ==
    fout # NoCall =>
        /\ fout.calls = 2 => fout.out = fout.first
        /\ \A i \in DOMAIN fout.out : InRange(fout.out[i], fin.min_val, fin.max_val)

\* C14, amended: enforce_range is idempotent for every array and every pair
\* of bounds; a NaN element stays NaN; every other element of the result is
\* at most hi, and at least lo when lo <= hi or hi is absent; with lo > hi
\* every element that is not NaN becomes hi.
C14_IdempotentInRange ==
    fout # NoCall =>
        /\ fout.calls = 2 => fout.out = fout.first
        /\ Len(fout.out) = Len(fin.data)
        /\ \A i \in DOMAIN fin.data :
              IF fin.data[i].k = "nan"
              THEN fout.out[i] = NaN
              ELSE /\ fout.out[i].k = "num"
                   /\ fin.max_val # None => FLe(fout.out[i], Val(fin.max_val))
                   /\ (fin.min_val # None /\ fin.max_val # None
                         /\ FLt(Val(fin.max_val), Val(fin.min_val)))
                        => fout.out[i] = Val(fin.max_val)
                   /\ (fin.min_val # None
                         /\ (fin.max_val = None \/ FLe(Val(fin.min_val), Val(fin.max_val))))
                        => FGe(fout.out[i], Val(fin.min_val))

\* enforce_range applied twice with bounds 0 and 2 to an array with one
\* element below and one above the range
C14_Witness ==
    /\ fout # NoCall /\ fout.calls = 2
    /\ fin.min_val = Some(Zero) /\ fin.max_val = Some(Num(2, 1))
    /\ fin.data = <<Num(-1, 1), Num(3, 1)>>
    /\ fout.out = <<Zero, Num(2, 1)>>

\* ---- round_to_precision ----
\* data and precision in hundredths: 124 is 1.24 and 10 is 0.1
Hundredths == 100
RoundValues == {-126, -25, 0, 124, 125, 126}
Precisions == {10, 50, Hundredths}
RoundMethods == {"round", "floor", "ceil", "truncate"}

\* np.floor(x / p) and np.ceil(x / p) for p > 0
NpFloor(x, p) == x \div p
NpCeil(x, p) == -((-x) \div p)
\* np.round(x / p) without the tie rule: the quotient rounded down
NpRoundDown(x, p) == x \div p
\* np.round(x / p): to the nearest integer, a tie to the even one
NpRound(x, p) ==
    LET q == x \div p
        r == x % p
    IN  IF 2 * r < p THEN q
        ELSE IF 2 * r > p THEN q + 1
        ELSE IF q % 2 = 0 THEN q ELSE q + 1

round_to_precision(data, precision, method) ==
    CASE method = "round" ->
            [fn |-> "returned",
             out |-> [i \in DOMAIN data |-> NpRound(data[i], precision) * precision]]
      [] method = "floor" ->
            [fn |-> "returned",
             out |-> [i \in DOMAIN data |-> NpFloor(data[i], precision) * precision]]
      [] method = "ceil" ->
            [fn |-> "returned",
             out |-> [i \in DOMAIN data |-> NpCeil(data[i], precision) * precision]]
      [] OTHER -> [fn |-> "raised"]

RoundInputs ==
    [fn : {"round_to_precision"}, data : SeqsUpTo(RoundValues, MaxRows),
     precision : Precisions, method : RoundMethods]

RoundInit ==
    /\ fin \in RoundInputs
    /\ fout = NoCall
    /\ RngIdle /\ ValIdle /\ CensIdle /\ EffIdle /\ OddsIdle

CallRoundToPrecision ==
    /\ fin # NoCall /\ fin.fn = "round_to_precision" /\ fout = NoCall
    /\ fout' = round_to_precision(fin.data, fin.precision, fin.method)
    /\ UNCHANGED <<fin, rngVars, valVars, censVars, effVars, oddsVars>>

RoundNext == CallRoundToPrecision

SpecRound == RoundInit /\ [][RoundNext]_vars

\* ---- the claim about round_to_precision ----
\* C15: round_to_precision maps each element to a multiple of precision:
\* 'floor' gives the greatest multiple not above the element, 'ceil' the
\* least multiple not below it, 'round' a nearest multiple, so that
\* [1.24, 1.26] at precision 0.1 gives [1.2, 1.3] with 'round' and
\* [1.2, 1.2] with 'floor'; any other method name raises an error.
C15_RoundToMultiple ==
    fout # NoCall =>
        IF fin.method \in {"round", "floor", "ceil"}
        THEN /\ fout.fn = "returned"
             /\ Len(fout.out) = Len(fin.data)
             /\ \A i \in DOMAIN fin.data :
                  LET x == fin.data[i]
                      y == fout.out[i]
                  IN /\ y % fin.precision = 0
                     /\ fin.method = "floor" => (y <= x /\ x < y + fin.precision)
                     /\ fin.method = "ceil" => (y >= x /\ x > y - fin.precision)
                     /\ fin.method = "round" => 2 * Abs(x - y) <= fin.precision
             /\ (fin.data = <<124, 126>> /\ fin.precision = 10) =>
                  /\ fin.method = "round" => fout.out = <<120, 130>>
                  /\ fin.method = "floor" => fout.out = <<120, 120>>
        ELSE fout.fn = "raised"

\* the example of the specification: [1.24, 1.26] rounded at precision 0.1
C15_Witness ==
    /\ FnReturned
    /\ fin.fn = "round_to_precision" /\ fin.method = "round"
    /\ fin.data = <<124, 126>> /\ fin.precision = 10
    /\ fout.out = <<120, 130>>

\* ---- add_missing_values ----
\* values in quarters, so that the quartiles of up to five of them are exact
MissingData == {0, RateDen, 2 * RateDen}
Mechanisms == {"mcar", "mar", "mnar", "mcar-string"}

\* missing_probs in eighths, by quartile of the stratifying variable v:
\* 0.5, 1 and 1.5 times missing_rate, and top / 2 times above the third quartile
MissingProbs(v, missing_rate, top) ==
    LET q1 == Percentile(v, 1)
        q2 == Percentile(v, 2)
        q3 == Percentile(v, 3)
    IN [i \in DOMAIN v |->
          IF v[i] <= q1 THEN missing_rate
          ELSE IF v[i] <= q2 THEN 2 * missing_rate
          ELSE IF v[i] <= q3 THEN 3 * missing_rate
          ELSE top * missing_rate]

\* the MAR branch without its test of related_var: boolean indexing with an
\* array of another length raises IndexError, one of the same length stratifies
MarRaisesUnchecked(related_var, n) ==
    related_var # None /\ Len(Val(related_var)) # n
\* the MAR branch raises ValueError without related_var, and IndexError when
\* related_var has another length than data
MarRaises(related_var, n) ==
    related_var = None \/ Len(Val(related_var)) # n

\* add_missing_values on a non-empty array, given the variates r (in
\* quarters) of np.random.random(n).  data is the caller's array after the
\* call, out the returned array.
AddMissingValues(data, missing_rate, mechanism, related_var, r) ==
    LET n == Len(data)
        result == [i \in DOMAIN data |-> Num(data[i], 1)]
        Missing(mask) ==
            [fn |-> "returned", data |-> data,
             out |-> [i \in DOMAIN data |-> IF i \in mask THEN NaN ELSE result[i]]]
        Raised == [fn |-> "raised", data |-> data]
    IN CASE mechanism = "mcar" -> Missing(Masked(r, missing_rate))
         [] mechanism = "mar" ->
              IF MarRaises(related_var, n) THEN Raised
              ELSE LET v == IF related_var = None THEN data ELSE Val(related_var)
                       missing_probs == MissingProbs(v, missing_rate, 4)
                   IN Missing({i \in DOMAIN data : 2 * r[i] < missing_probs[i]})
         [] mechanism = "mnar" ->
              LET missing_probs == MissingProbs(data, missing_rate, 5)
              IN Missing({i \in DOMAIN data : 2 * r[i] < missing_probs[i]})
         [] OTHER -> Raised

MissingInputs ==
    [fn : {"add_missing_values"},
     data : SeqsUpTo(MissingData, MaxRows) \ {<<>>},
     missing_rate : RateQuarters, mechanism : Mechanisms,
     related_var : {None} \cup {Some(v) : v \in SeqsUpTo(MissingData, MaxRows)}]

MissingInit ==
    /\ fin \in MissingInputs
    /\ fout = NoCall
    /\ RngIdle /\ ValIdle /\ CensIdle /\ EffIdle /\ OddsIdle

CallAddMissingValues ==
    /\ fin # NoCall /\ fin.fn = "add_missing_values" /\ fout = NoCall
    /\ \E r \in [DOMAIN fin.data -> MaskVariates] :
         fout' = AddMissingValues(fin.data, fin.missing_rate, fin.mechanism,
                                  fin.related_var, r)
    /\ UNCHANGED <<fin, rngVars, valVars, censVars, effVars, oddsVars>>

MissingNext == CallAddMissingValues

SpecMissing == MissingInit /\ [][MissingNext]_vars

\* ---- the claim about add_missing_values ----
\* C16 as stated: MAR without related_var raises and leaves the input array
\* unchanged; MCAR, MNAR, and MAR with a related_var do not raise.
C16_MarNeedsRelatedVarAsStated ==
    fout # NoCall =>
        /\ (fin.mechanism = "mar" /\ fin.related_var = None) =>
              (fout.fn = "raised" /\ fout.data = fin.data)
        /\ (fin.mechanism \in {"mcar", "mnar"}
              \/ (fin.mechanism = "mar" /\ fin.related_var # None)) =>
              fout.fn = "returned"

\* C16, amended: MAR without related_var raises and leaves the input array
\* unchanged; MCAR, MNAR, and MAR with a related_var of the same length as
\* data do not raise; MAR with a related_var of another length raises.
C16_MarNeedsRelatedVar ==
    fout # NoCall =>
        /\ fout.data = fin.data
        /\ (fin.mechanism = "mar" /\ fin.related_var = None) => fout.fn = "raised"
        /\ (fin.mechanism \in {"mcar", "mnar"}
              \/ (fin.mechanism = "mar" /\ fin.related_var # None
                    /\ Len(Val(fin.related_var)) = Len(fin.data))) =>
              fout.fn = "returned"
        /\ (fin.mechanism = "mar" /\ fin.related_var # None
              /\ Len(Val(fin.related_var)) # Len(fin.data)) => fout.fn = "raised"

\* a MAR call without related_var that raised, on an array of two rows
C16_Witness ==
    /\ fout # NoCall /\ fout.fn = "raised"
    /\ fin.fn = "add_missing_values"
    /\ fin.mechanism = "mar" /\ fin.related_var = None
    /\ fin.missing_rate > 0
    /\ Len(fin.data) = 2 /\ fout.data = fin.data

\* ---- add_misclassification ----
CatValues == {0, 1, 2}
\* categories: absent, or the set of the members of the list given
CategorySets == {None} \cup {Some(S) : S \in SUBSET CatValues}

\* np.unique(data)
Unique(data) == {data[i] : i \in DOMAIN data}

\* the categories without any test against current_cat
OtherCatsAll(categories, current_cat) == categories
\* other_cats = [c for c in categories if c != current_cat]
OtherCats(categories, current_cat) == categories \ {current_cat}

\* add_misclassification, given the variates r of the mask: the arrays it can
\* return, one for every outcome of np.random.choice(other_cats) in each
\* selected row
add_misclassification(data, error_rate, categories, r) ==
    LET cats == IF categories = None THEN Unique(data) ELSE Val(categories)
        error_mask == Masked(r, error_rate)
    IN {[fn |-> "returned", error_mask |-> error_mask, out |-> result] :
          result \in {a \in [DOMAIN data -> CatValues] :
                        \A i \in DOMAIN data :
                           IF i \in error_mask /\ OtherCats(cats, data[i]) # {}
                           THEN a[i] \in OtherCats(cats, data[i])
                           ELSE a[i] = data[i]}}

MisclassInputs ==
    [fn : {"add_misclassification"}, data : SeqsUpTo(CatValues, MaxRows),
     error_rate : RateQuarters, categories : CategorySets]

MisclassInit ==
    /\ fin \in MisclassInputs
    /\ fout = NoCall
    /\ RngIdle /\ ValIdle /\ CensIdle /\ EffIdle /\ OddsIdle

CallAddMisclassification ==
    /\ fin # NoCall /\ fin.fn = "add_misclassification" /\ fout = NoCall
    /\ \E r \in [DOMAIN fin.data -> MaskVariates] :
         fout' \in add_misclassification(fin.data, fin.error_rate, fin.categories, r)
    /\ UNCHANGED <<fin, rngVars, valVars, censVars, effVars, oddsVars>>

MisclassNext == CallAddMisclassification

SpecMisclass == MisclassInit /\ [][MisclassNext]_vars

\* ---- the claim about add_misclassification ----
\* the category set of the call: the one given, or the values of data
CategorySet == IF fin.categories = None THEN Unique(fin.data) ELSE Val(fin.categories)

\* C17 as stated: every index selected for error receives a value of the
\* category set that differs from its previous value whenever the category
\* set has at least two members; every index not selected keeps its value,
\* and with a single category nothing changes.
C17_MisclassificationAsStated ==
    fout # NoCall =>
        /\ \A i \in fout.error_mask :
              Cardinality(CategorySet) >= 2 =>
                 (fout.out[i] \in CategorySet /\ fout.out[i] # fin.data[i])
        /\ \A i \in DOMAIN fin.data \ fout.error_mask : fout.out[i] = fin.data[i]
        /\ Cardinality(CategorySet) = 1 => fout.out = fin.data

\* C17, amended: every index selected for error receives a value of the
\* category set that differs from its previous value whenever the category
\* set holds a value other than the one the index has (so always with two
\* or more categories), and keeps its value otherwise; every index not
\* selected keeps its value.  With a single category, only rows whose value
\* is not that category change.
C17_Misclassification ==
    fout # NoCall =>
        /\ Len(fout.out) = Len(fin.data)
        /\ \A i \in fout.error_mask :
              IF CategorySet \ {fin.data[i]} # {}
              THEN fout.out[i] \in CategorySet /\ fout.out[i] # fin.data[i]
              ELSE fout.out[i] = fin.data[i]
        /\ \A i \in DOMAIN fin.data \ fout.error_mask : fout.out[i] = fin.data[i]
        /\ \A i \in DOMAIN fin.data :
              (Cardinality(CategorySet) = 1 /\ fin.data[i] \in CategorySet)
                 => fout.out[i] = fin.data[i]

\* a call that selected both rows of [0, 1] and exchanged their categories
C17_Witness ==
    /\ FnReturned
    /\ fin.fn = "add_misclassification" /\ fin.categories = None
    /\ fin.data = <<0, 1>>
    /\ fout.error_mask = {1, 2}
    /\ fout.out = <<1, 0>>

\* ---- add_dropout ----
DropValues == {0, 1}
\* the keys of the data dict, in insertion order
DictKeys == <<"a", "b">>
DropMechanisms == {"random", "related", "informative"}
\* dicts with no key, the first key, or both keys
Dicts(values) ==
    UNION {[{DictKeys[j] : j \in 1..m} -> SeqsUpTo(values, MaxRows)] : m \in 0..Len(DictKeys)}

\* retained rows when nothing is filtered out
RetainedAll(dropout_mask) == {i \in DOMAIN dropout_mask : TRUE}
\* retained_mask = ~dropout_mask, as the set of retained rows
Retained(dropout_mask) == {i \in DOMAIN dropout_mask : ~dropout_mask[i]}

\* add_dropout, given the variates r of np.random.random(n).  An empty dict
\* has no first array and boolean indexing of an array whose length is not
\* n raises IndexError.
add_dropout(data, dropout_rate, dropout_mechanism, r) ==
    IF DOMAIN data = {} THEN [fn |-> "raised"]
    ELSE LET n == Len(data[DictKeys[1]])
             dropout_mask == [i \in 1..n |-> i \in Masked(r, dropout_rate)]
         IN  IF dropout_mechanism \notin {"random", "related"}
             THEN [fn |-> "raised"]
             ELSE IF \E key \in DOMAIN data : Len(data[key]) # n
             THEN [fn |-> "raised"]
             ELSE [fn |-> "returned",
                   filtered_data |-> [key \in DOMAIN data |->
                                        SelectIdx(data[key], Retained(dropout_mask))],
                   dropout_mask |-> dropout_mask]

DropoutInputs ==
    [fn : {"add_dropout"}, data : Dicts(DropValues),
     dropout_rate : RateQuarters, dropout_mechanism : DropMechanisms]

DropoutInit ==
    /\ fin \in DropoutInputs
    /\ fout = NoCall
    /\ RngIdle /\ ValIdle /\ CensIdle /\ EffIdle /\ OddsIdle

CallAddDropout ==
    /\ fin # NoCall /\ fin.fn = "add_dropout" /\ fout = NoCall
    /\ LET n == IF DOMAIN fin.data = {} THEN 0 ELSE Len(fin.data[DictKeys[1]])
       IN \E r \in [1..n -> MaskVariates] :
            fout' = add_dropout(fin.data, fin.dropout_rate, fin.dropout_mechanism, r)
    /\ UNCHANGED <<fin, rngVars, valVars, censVars, effVars, oddsVars>>

DropoutNext == CallAddDropout

SpecDropout == DropoutInit /\ [][DropoutNext]_vars

\* ---- the claim about add_dropout ----
\* the rows of the returned mask that are false
KeptRows == {i \in DOMAIN fout.dropout_mask : ~fout.dropout_mask[i]}
\* the original row that the k-th filtered row comes from
KeptRow(k) == CHOOSE i \in KeptRows : Cardinality({j \in KeptRows : j <= i}) = k

\* C18: add_dropout, for both mechanisms 'random' and 'related', applies one
\* dropout mask of length n to every array of the dict: each filtered array
\* holds, in the original order, exactly the rows whose mask entry is false,
\* so all filtered arrays have length n minus the number of dropped rows and
\* row k of every variable comes from the same original row.
C18_OneDropoutMask ==
    /\ (fout # NoCall /\ fin.dropout_mechanism \in {"random", "related"}
          /\ DOMAIN fin.data # {}
          /\ \A key \in DOMAIN fin.data : Len(fin.data[key]) = Len(fin.data["a"]))
         => fout.fn = "returned"
    /\ FnReturned =>
         /\ fin.dropout_mechanism \in {"random", "related"}
         /\ DOMAIN fout.filtered_data = DOMAIN fin.data
         /\ \A key \in DOMAIN fin.data :
              /\ Len(fout.dropout_mask) = Len(fin.data[key])
              /\ Len(fout.filtered_data[key]) = Cardinality(KeptRows)
              /\ \A k \in 1..Cardinality(KeptRows) :
                   fout.filtered_data[key][k] = fin.data[key][KeptRow(k)]

\* a 'related' call on two variables of two rows that dropped the first row
\* and kept the second, where the two rows differ in both variables
C18_Witness ==
    /\ FnReturned
    /\ fin.fn = "add_dropout" /\ fin.dropout_mechanism = "related"
    /\ fin.data = [key \in {"a", "b"} |-> IF key = "a" THEN <<0, 1>> ELSE <<1, 0>>]
    /\ fout.dropout_mask = <<TRUE, FALSE>>
    /\ fout.filtered_data = [key \in {"a", "b"} |-> IF key = "a" THEN <<1>> ELSE <<0>>]

\* ---- ensure_logical_consistency ----
\* bound of the exploration: the length of the list of rules
MaxRules == 1

\* values in halves: 2 is 1.0; an integer array holds even numbers only
Halves == 2
ConsistencyValues == {-Halves, Halves}
Dtypes == {"int64", "float64"}
\* np.abs(np.random.normal(1, 0.5)): 0.5 or 1.5
Offsets == {1, 3}

ConsistencyRules ==
    {[var1 |-> "a", var2 |-> "b", relation |-> "var1_less_than_var2", action |-> "adjust_var2"],
     [var1 |-> "a", var2 |-> "b", relation |-> "var1_less_than_var2", action |-> "adjust_var1"],
     [var1 |-> "b", var2 |-> "a", relation |-> "var1_less_than_var2", action |-> "adjust_var2"],
     [var1 |-> "a", var2 |-> "b", relation |-> "var1_less_than_var2", action |-> "flag"],
     [var1 |-> "a", var2 |-> "b", relation |-> "derived", action |-> "adjust_var2"],
     [var1 |-> "a", var2 |-> "c", relation |-> "var1_less_than_var2", action |-> "adjust_var2"]}

\* assignment of a float into an array of dtype: an integer array drops the
\* fraction (conversion toward zero)
Store(dtype, h) ==
    IF dtype = "int64"
    THEN IF h >= 0 THEN (h \div Halves) * Halves ELSE -(((-h) \div Halves) * Halves)
    ELSE h

\* one iteration of the loop over rules, given the offsets drawn for the
\* rows (only those of masked rows are used)
ApplyRule(result, dtype, rule, offset) ==
    IF rule.var1 \notin DOMAIN result \/ rule.var2 \notin DOMAIN result
    THEN result
    ELSE IF rule.relation = "var1_less_than_var2"
    THEN LET v1 == result[rule.var1]
             v2 == result[rule.var2]
             mask == {i \in DOMAIN v1 : v1[i] >= v2[i]}
         IN  IF rule.action = "adjust_var2"
             THEN [result EXCEPT ![rule.var2] =
                     [i \in DOMAIN v2 |->
                        IF i \in mask THEN Store(dtype, v1[i] + offset[i]) ELSE v2[i]]]
             ELSE IF rule.action = "adjust_var1"
             THEN [result EXCEPT ![rule.var1] =
                     [i \in DOMAIN v1 |->
                        IF i \in mask THEN Store(dtype, v2[i] - offset[i]) ELSE v1[i]]]
             ELSE result
    ELSE result

\* dicts of two arrays of the same length and dtype
ConsistencyInputs ==
    UNION {[fn : {"ensure_logical_consistency"},
            data : [{"a", "b"} -> [1..n -> ConsistencyValues]],
            dtype : Dtypes,
            rules : SeqsUpTo(ConsistencyRules, MaxRules)] : n \in 1..MaxRows}

ConsistencyInit ==
    /\ fin \in ConsistencyInputs
    /\ fout = NoCall
    /\ RngIdle /\ ValIdle /\ CensIdle /\ EffIdle /\ OddsIdle

\* result = {k: v.copy() for k, v in data.items()}
ConsistencyCopy ==
    /\ fin # NoCall /\ fin.fn = "ensure_logical_consistency" /\ fout = NoCall
    /\ fout' = [fn |-> "running", applied |-> 0, result |-> fin.data]
    /\ UNCHANGED <<fin, rngVars, valVars, censVars, effVars, oddsVars>>

\* for rule in rules: the body, for the next rule of the list
ConsistencyRule ==
    /\ fin # NoCall /\ fin.fn = "ensure_logical_consistency"
    /\ fout # NoCall /\ fout.fn = "running"
    /\ fout.applied < Len(fin.rules)
    /\ \E offset \in [DOMAIN fin.data["a"] -> Offsets] :
         fout' = [fout EXCEPT !.applied = fout.applied + 1,
                              !.result = ApplyRule(fout.result, fin.dtype,
                                                   fin.rules[fout.applied + 1], offset)]
    /\ UNCHANGED <<fin, rngVars, valVars, censVars, effVars, oddsVars>>

\* return result
ConsistencyReturn ==
    /\ fin # NoCall /\ fin.fn = "ensure_logical_consistency"
    /\ fout # NoCall /\ fout.fn = "running"
    /\ fout.applied = Len(fin.rules)
    /\ fout' = [fout EXCEPT !.fn = "returned"]
    /\ UNCHANGED <<fin, rngVars, valVars, censVars, effVars, oddsVars>>

ConsistencyNext == ConsistencyCopy \/ ConsistencyRule \/ ConsistencyReturn

SpecConsistency == ConsistencyInit /\ [][ConsistencyNext]_vars

\* ---- the claim about ensure_logical_consistency ----
\* the step applies an ordering rule with one of the two adjusting actions
AppliesOrderingRule ==
    /\ fout # NoCall /\ fout.fn = "running"
    /\ fout'.fn = "running" /\ fout'.applied = fout.applied + 1
    /\ LET rule == fin.rules[fout'.applied]
       IN /\ rule.relation = "var1_less_than_var2"
          /\ rule.action \in {"adjust_var2", "adjust_var1"}
          /\ rule.var1 \in DOMAIN fout.result /\ rule.var2 \in DOMAIN fout.result

\* C19: immediately after a var1_less_than_var2 rule is applied (with action
\* adjust_var2 or adjust_var1), var1 < var2 holds strictly on every row, for
\* arrays of integer as well as real values, and rows that already satisfied
\* var1 < var2 are unchanged.
C19_OrderingRestored ==
    [][AppliesOrderingRule =>
         LET rule == fin.rules[fout'.applied]
         IN \A i \in DOMAIN fin.data["a"] :
              /\ fout'.result[rule.var1][i] < fout'.result[rule.var2][i]
              /\ fout.result[rule.var1][i] < fout.result[rule.var2][i] =>
                    \A key \in DOMAIN fout.result :
                       fout'.result[key][i] = fout.result[key][i]]_vars

(***************************************************************************)
(* Part 8.  Operations that take a distribution name:                      *)
(* generate_with_hazard_ratio, generate_cox_survival, generate_ordinal.    *)
(***************************************************************************)
SurvivalFamilies == {"exponential", "weibull", "lognormal"}
OrdinalFamilies == {"uniform", "normal", "skewed_low", "skewed_high", "bimodal"}
\* baseline_median, and the hazard ratios that divide it exactly
BaselineMedian == 4
HazardRatios == {1, 2}
Shapes == {1, 2}
MaxTimes == {None, Some(6)}
\* a standard exponential variate in units of ln 2: the median, or four
\* times the median
ExpVariates == {1, 4}

\* the square root of a perfect square
Sqrt(x) == CHOOSE y \in 0..x : y * y = x

\* np.minimum(survival_time, max_time) when max_time is given
CapTime(t, max_time) == IF max_time # None THEN Min(t, Val(max_time)) ELSE t

\* one time of generate_exponential: the variate over lambda = ln 2 / median
ExponentialTime(x, median_survival, max_time) ==
    CapTime(median_survival * x, max_time)

\* one time of generate_weibull: scale * variate ^ (1 / shape), with scale =
\* median / (ln 2) ^ (1 / shape), for shape 1 or 2
WeibullTime(x, median_survival, shape, max_time) ==
    CapTime(median_survival * (IF shape = 1 THEN x ELSE Sqrt(x)), max_time)

\* the sampler that a distribution name selects in generate_with_hazard_ratio
\* and generate_cox_survival: anything but 'exponential' is Weibull
SurvivalTime(distribution, x, median_survival, shape, max_time) ==
    IF distribution = "exponential"
    THEN ExponentialTime(x, median_survival, max_time)
    ELSE WeibullTime(x, median_survival, shape, max_time)

\* generate_with_hazard_ratio with n = len(exposure), given the variates x:
\* rows with exposure 0 at the baseline median, rows with exposure 1 at
\* baseline_median / hazard_ratio, other rows left at 0
generate_with_hazard_ratio(exposure, baseline_median, hazard_ratio, distribution, shape, max_time, x) ==
    [fn |-> "returned",
     out |-> [i \in DOMAIN exposure |->
                IF exposure[i] = 0
                THEN SurvivalTime(distribution, x[i], baseline_median, shape, max_time)
                ELSE IF exposure[i] = 1
                THEN SurvivalTime(distribution, x[i], baseline_median \div hazard_ratio,
                                  shape, max_time)
                ELSE 0]]

\* generate_cox_survival with one binary covariate whose coefficient is
\* log(hazard_ratio): individual_median = baseline_median / exp(linear_pred)
generate_cox_survival(covariates, hazard_ratio, baseline_median, distribution, shape, max_time, x) ==
    [fn |-> "returned",
     out |-> [i \in DOMAIN covariates |->
                LET individual_median ==
                       IF covariates[i] = 1 THEN baseline_median \div hazard_ratio
                       ELSE baseline_median
                IN SurvivalTime(distribution, x[i], individual_median, shape, max_time)]]

\* generate_ordinal: the levels that have a positive probability.  The
\* distribution name is only looked at when probabilities is None;
\* np.random.choice raises when p has another length than levels.
OrdinalProbabilities == {None, Some(<<1, 1>>), Some(<<1, 0>>), Some(<<1, 1, 2>>)}
OrdinalLevels == {2, 3}
generate_ordinal(n, levels, probabilities, distribution) ==
    IF probabilities # None
    THEN IF Len(Val(probabilities)) # levels
         THEN {[fn |-> "raised"]}
         ELSE {[fn |-> "returned", out |-> a] :
                 a \in [1..n -> {l \in 1..levels : Val(probabilities)[l] > 0}]}
    ELSE IF distribution \in {"uniform", "normal", "skewed_low", "skewed_high"}
         THEN {[fn |-> "returned", out |-> a] : a \in [1..n -> 1..levels]}
         ELSE {[fn |-> "raised"]}

ConfigInputs ==
    [fn : {"generate_with_hazard_ratio", "generate_cox_survival"},
     exposure : SeqsUpTo({0, 1}, MaxRows), baseline_median : {BaselineMedian},
     hazard_ratio : HazardRatios, distribution : SurvivalFamilies,
     shape : Shapes, max_time : MaxTimes]
    \cup
    [fn : {"generate_ordinal"}, n : 0..MaxRows, levels : OrdinalLevels,
     probabilities : OrdinalProbabilities, distribution : OrdinalFamilies]

ConfigInit ==
    /\ fin \in ConfigInputs
    /\ fout = NoCall
    /\ RngIdle /\ ValIdle /\ CensIdle /\ EffIdle /\ OddsIdle

CallWithHazardRatio ==
    /\ fin # NoCall /\ fin.fn = "generate_with_hazard_ratio" /\ fout = NoCall
    /\ \E x \in [DOMAIN fin.exposure -> ExpVariates] :
         fout' = generate_with_hazard_ratio(fin.exposure, fin.baseline_median,
                    fin.hazard_ratio, fin.distribution, fin.shape, fin.max_time, x)
    /\ UNCHANGED <<fin, rngVars, valVars, censVars, effVars, oddsVars>>

CallCoxSurvival ==
    /\ fin # NoCall /\ fin.fn = "generate_cox_survival" /\ fout = NoCall
    /\ \E x \in [DOMAIN fin.exposure -> ExpVariates] :
         fout' = generate_cox_survival(fin.exposure, fin.hazard_ratio,
                    fin.baseline_median, fin.distribution, fin.shape, fin.max_time, x)
    /\ UNCHANGED <<fin, rngVars, valVars, censVars, effVars, oddsVars>>

CallOrdinal ==
    /\ fin # NoCall /\ fin.fn = "generate_ordinal" /\ fout = NoCall
    /\ fout' \in generate_ordinal(fin.n, fin.levels, fin.probabilities, fin.distribution)
    /\ UNCHANGED <<fin, rngVars, valVars, censVars, effVars, oddsVars>>

ConfigNext == CallWithHazardRatio \/ CallCoxSurvival \/ CallOrdinal

SpecConfig == ConfigInit /\ [][ConfigNext]_vars

\* ---- the claim about distribution names ----
\* the names each operation documents
SupportedNames ==
    IF fin.fn = "generate_ordinal"
    THEN {"uniform", "normal", "skewed_low", "skewed_high"}
    ELSE {"exponential", "weibull"}

\* C20: configuration errors fail fast: an operation that takes a
\* distribution name raises at that call when the name is not one of its
\* supported values and never silently falls back to another family; this
\* includes generate_with_hazard_ratio, generate_cox_survival, and
\* generate_ordinal when probabilities are supplied.
C20_UnknownNameRaises ==
    (fout # NoCall /\ fin.distribution \notin SupportedNames) => fout.fn = "raised"

(***************************************************************************)
(* Part 9.  Object identity and input arrays of the injectors, the         *)
(* validator's result list, and the remaining operations.                  *)
(***************************************************************************)
\* C21: every injector and perturbation call returns a fresh array: the
\* array object that adjust_effect_size returns is never the same object as
\* its input, on every path including the degenerate ones.
C21_FreshArray ==
    EffReturned => ~eout.same_object

\* ---- a validator that is called several times ----
\* bound of the exploration: the number of results collected
MaxResults == 2

\* the calls made one after another on the same validator
SeqInputs ==
    [fn : {"validate_correlation"}, x : {<<>>}, method : {"pearson", "kendall"},
     expected : {Num(1, 1)}, expected_significant : {TRUE}, alpha : {Alpha},
     tolerance : {Num(1, 5)}]
    \cup
    [fn : {"validate_mean_difference"},
     x : {<<[v |-> 0, g |-> 0, e |-> 0], [v |-> 1, g |-> 1, e |-> 0]>>},
     method : {"-"}, expected : {Num(1, 1)}, expected_significant : {TRUE, FALSE},
     alpha : {Alpha}, tolerance : {Num(1, 5)}]

ValSeqInit ==
    /\ vin \in SeqInputs
    /\ results = <<>>
    /\ vret = "pending"
    /\ RngIdle /\ CensIdle /\ EffIdle /\ OddsIdle /\ FnIdle

\* the caller makes its next validate_* call on the same validator
NextCall ==
    /\ vret \in {"returned", "raised"}
    /\ vin' \in SeqInputs
    \* only a call that can return is counted by the bound
    /\ Len(results) < MaxResults \/ vin'.method = "kendall"
    /\ vret' = "pending"
    /\ UNCHANGED <<results, rngVars, censVars, effVars, oddsVars, fnVars>>

ValSeqNext ==
    \/ validate_mean_difference
    \/ validate_correlation
    \/ NextCall

SpecValidateSeq == ValSeqInit /\ [][ValSeqNext]_vars

\* get_summary (without pass_rate and the list itself)
get_summary ==
    LET total == Len(results)
        passed == Cardinality({i \in DOMAIN results : results[i].passed})
    IN [total |-> total, passed |-> passed, failed |-> total - passed,
        all_passed |-> passed = total]

\* ---- the claim about the result sequence ----
\* C22: the validator's result sequence is append-only and ordered by call:
\* each validate_* call that returns appends exactly one ValidationResult at
\* the end of results and never changes or removes an earlier entry, a call
\* that raises leaves results unchanged, and at every point get_summary
\* reports total = passed + failed and all_passed exactly when failed = 0.
C22_AppendOnly ==
    /\ [][/\ Len(results') >= Len(results)
          /\ SubSeq(results', 1, Len(results)) = results
          /\ (vret = "pending" /\ vret' = "returned") =>
                /\ Len(results') = Len(results) + 1
                /\ results'[Len(results')].expected_value = vin.expected
                /\ results'[Len(results')].metric_name
                      = (IF vin.fn = "validate_correlation" THEN "correlation"
                         ELSE "mean_difference")
          /\ ~(vret = "pending" /\ vret' = "returned") => results' = results]_vars
    /\ [](/\ get_summary.total = Len(results)
          /\ get_summary.total = get_summary.passed + get_summary.failed
          /\ get_summary.all_passed <=> (get_summary.failed = 0)
          /\ get_summary.passed
               = Cardinality({i \in DOMAIN results : results[i].passed}))

\* a call that raised after two calls returned, one result passed and the
\* other failed
C22_Witness ==
    /\ vret = "raised"
    /\ Len(results) = 2
    /\ results[1].metric_name = "mean_difference" /\ ~results[1].passed
    /\ results[2].metric_name = "correlation" /\ results[2].passed

\* ---- the flips of adjust_odds_ratio ----
\* the odds ratio of the array as one iteration finds it and as it leaves it
FlipKeepsDirection(k) ==
    LET current_or == OddsRatio(adjusted, oin.exposure)
        new_or == OddsRatio(adjusted', oin.exposure)
    IN /\ oin.exposure[k] = 1
       /\ current_or # None
       /\ (adjusted[k] = 0 /\ adjusted'[k] = 1) =>
             /\ FLt(Val(current_or), oin.target_or)
             \* with no exposed non-event left the ratio is undefined
             /\ new_or = None \/ FGe(Val(new_or), Val(current_or))
       /\ (adjusted[k] = 1 /\ adjusted'[k] = 0) =>
             /\ ~FLt(Val(current_or), oin.target_or)
             /\ new_or # None
             /\ FLe(Val(new_or), Val(current_or))

\* C23: adjust_odds_ratio flips only exposed-group observations and only in
\* the direction of the target: the outcome of every observation with
\* exposure != 1 is the same in the output as in the input, a 0-to-1 flip
\* happens only in an iteration where the current odds ratio is below the
\* target and a 1-to-0 flip only where it is not below, and a 0-to-1 flip
\* never decreases the odds ratio while a 1-to-0 flip never increases it.
C23_FlipsTowardsTarget ==
    /\ [][(opc = "loop" /\ adjusted' # adjusted) =>
            \A k \in Differing(adjusted, adjusted') : FlipKeepsDirection(k)]_vars
    /\ [](OrReturned =>
            \A i \in DOMAIN adjusted : oin.exposure[i] # 1 => adjusted[i] = oin.outcome[i])

\* a call that raised the odds ratio from 0 with two flips in the exposed
\* group, next to two unexposed observations
C23_Witness ==
    /\ opc = "exhausted"
    /\ iter = 2
    /\ Cardinality({i \in DOMAIN adjusted : oin.exposure[i] = 0}) = 2
    /\ \A i \in DOMAIN adjusted : oin.exposure[i] = 1 => (oin.outcome[i] = 0 /\ adjusted[i] = 1)
    /\ OddsRatio(oin.outcome, oin.exposure) = Some(Num(0, 2))

\* abs(np.log(current_or) - np.log(target_or)) < 0.1 on the given array
WithinTolerance(outcome) ==
    /\ OddsRatio(outcome, oin.exposure) # None
    /\ Close(Val(OddsRatio(outcome, oin.exposure)), oin.target_or)

\* C24: adjust_odds_ratio stops at convergence: once an iteration finds
\* |ln(current_or) - ln(target_or)| < 0.1 no further flip is made, so an input
\* already within that tolerance is returned unchanged; and whenever the
\* function returns, either that tolerance was met at the last check, or the
\* odds ratio was undefined, or all max_iterations iterations were used.
C24_StopsAtConvergence ==
    /\ [][(opc = "loop" /\ iter' = iter + 1 /\ WithinTolerance(adjusted))
            => (opc' = "converged" /\ adjusted' = adjusted)]_vars
    /\ [][opc = "converged" => (opc' = "converged" /\ adjusted' = adjusted)]_vars
    /\ []((OrReturned /\ WithinTolerance(oin.outcome)) => adjusted = oin.outcome)
    /\ [](OrReturned =>
            \/ opc = "converged" /\ WithinTolerance(adjusted)
            \/ opc = "undefined" /\ OddsRatio(adjusted, oin.exposure) = None
            \/ opc = "exhausted" /\ iter = oin.max_iterations)

\* a call that met the tolerance at its second check, after one flip
C24_Witness ==
    /\ opc = "converged"
    /\ iter = 2
    /\ Cardinality(Differing(adjusted, oin.outcome)) = 1
    /\ ~WithinTolerance(oin.outcome)

\* ---- SurvivalDataGenerator.adjust_hazard_ratio ----
\* bound of the exploration: the length of survival_time and exposure
MaxArm == 3

HrTimes == {0, 1, 3}
HrExposures == {0, 1, 2}
HrTargets == {Num(1, 2), Num(3, 1)}
HrCurrents == {None, Some(Zero), Some(Num(2, 1))}

\* _estimate_hazard_ratio on times that share one denominator (it cancels):
\* None when the exposed-arm median is 0, NaN when an arm is empty
EstimateHazardRatio(time, exposure) ==
    LET median0 == Median(SelectIdx(time, {i \in DOMAIN time : exposure[i] = 0}))
        median1 == Median(SelectIdx(time, {i \in DOMAIN time : exposure[i] = 1}))
    IN IF FEq(median1, Zero) THEN None
       ELSE IF IsNum(median0) /\ IsNum(median1) THEN Some(FDiv(median0, median1))
       ELSE Some(NaN)

\* adjustment_factor = current_hr / target_hr
AdjustmentFactorInverse(current_hr, target_hr) == FDiv(target_hr, current_hr)
AdjustmentFactor(current_hr, target_hr) == FDiv(current_hr, target_hr)

\* the result holds every time over the denominator of the factor
adjust_hazard_ratio(survival_time, exposure, target_hr, current_hr) ==
    LET current == IF current_hr = None THEN EstimateHazardRatio(survival_time, exposure)
                   ELSE current_hr
    IN IF current = None \/ (current # None /\ FEq(Val(current), Zero))
       THEN [fn |-> "returned", same_object |-> TRUE, current |-> current,
             out |-> [i \in DOMAIN survival_time |-> Num(survival_time[i], 1)]]
       ELSE LET adjustment_factor ==
                    IF IsNum(Val(current)) THEN AdjustmentFactor(Val(current), target_hr)
                    ELSE NaN
                exposed_mask == {i \in DOMAIN exposure : exposure[i] = 1}
                den == IF IsNum(adjustment_factor) THEN adjustment_factor.d ELSE 1
            IN [fn |-> "returned", same_object |-> FALSE, current |-> current,
                out |-> [i \in DOMAIN survival_time |->
                           IF i \notin exposed_mask THEN Num(survival_time[i] * den, den)
                           ELSE IF IsNum(adjustment_factor)
                                THEN Num(survival_time[i] * adjustment_factor.n, den)
                                ELSE NaN]]

HrInputs ==
    UNION {[fn : {"adjust_hazard_ratio"}, survival_time : [1..m -> HrTimes],
            exposure : [1..m -> HrExposures], target_hr : HrTargets,
            current_hr : HrCurrents]
           : m \in 0..MaxArm}

HrInit ==
    /\ fin \in HrInputs
    /\ fout = NoCall
    /\ RngIdle /\ ValIdle /\ CensIdle /\ EffIdle /\ OddsIdle

CallAdjustHazardRatio ==
    /\ fin.fn = "adjust_hazard_ratio" /\ fout = NoCall
    /\ fout' = adjust_hazard_ratio(fin.survival_time, fin.exposure, fin.target_hr,
                                   fin.current_hr)
    /\ UNCHANGED <<fin, rngVars, valVars, censVars, effVars, oddsVars>>

HrNext == CallAdjustHazardRatio

SpecHazard == HrInit /\ [][HrNext]_vars

\* ---- the claim about adjust_hazard_ratio ----
\* the returned time at i is the input time at i
SameTime(i) == FEq(fout.out[i], Num(fin.survival_time[i], 1))
\* the numerators of the returned times
Numerators(out) == [i \in DOMAIN out |-> out[i].n]

\* C25: adjust_hazard_ratio multiplies every exposed-arm time by
\* current_hr/target_hr and leaves every other time unchanged; it returns the
\* times unchanged when the current hazard ratio is undefined (exposed-arm
\* median 0) or 0; and when current_hr is estimated internally and is defined
\* and non-zero, the same median-ratio estimate computed on the result equals
\* target_hr.
C25_HazardRescale ==
    (fin.fn = "adjust_hazard_ratio" /\ FnReturned) =>
        LET estimate == EstimateHazardRatio(fin.survival_time, fin.exposure)
            current == IF fin.current_hr = None THEN estimate ELSE fin.current_hr
            usable == current # None /\ IsNum(Val(current)) /\ Val(current).n # 0
        IN /\ Len(fout.out) = Len(fin.survival_time)
           /\ \A i \in DOMAIN fin.survival_time : fin.exposure[i] # 1 => SameTime(i)
           /\ (current = None \/ (current # None /\ FEq(Val(current), Zero))) =>
                 \A i \in DOMAIN fin.survival_time : SameTime(i)
           /\ usable =>
                 \A i \in DOMAIN fin.survival_time : fin.exposure[i] = 1 =>
                    FEq(fout.out[i], FMul(Num(fin.survival_time[i], 1),
                                          FDiv(Val(current), fin.target_hr)))
           /\ (fin.current_hr = None /\ usable) =>
                 /\ \A i, j \in DOMAIN fout.out : fout.out[i].d = fout.out[j].d
                 /\ EstimateHazardRatio(Numerators(fout.out), fin.exposure) # None
                 /\ FEq(Val(EstimateHazardRatio(Numerators(fout.out), fin.exposure)),
                        fin.target_hr)

\* a call that estimated a hazard ratio other than the target from two
\* exposed and one unexposed time and moved the exposed times
C25_Witness ==
    /\ fin.fn = "adjust_hazard_ratio" /\ FnReturned
    /\ fin.current_hr = None
    /\ Cardinality({i \in DOMAIN fin.exposure : fin.exposure[i] = 1}) = 2
    /\ \E i \in DOMAIN fin.exposure : fin.exposure[i] = 0
    /\ fout.current # None /\ IsNum(Val(fout.current)) /\ Val(fout.current).n # 0
    /\ ~FEq(Val(fout.current), fin.target_hr)
    /\ \E i \in DOMAIN fin.exposure : fin.exposure[i] = 1 /\ ~SameTime(i)

\* ---- the shift made by adjust_effect_size ----
\* a returned value is r + c / d, d the Cohen's d of the input: its two parts
RatPart(v) == Num(v.n, v.d)
SymPart(v) == IF v.k = "sym" THEN Num(v.sn, v.sd) ELSE Zero
\* the group holds the labels 0 and 1 only, and both occur
TwoGroups ==
    /\ \A i \in DOMAIN ein.group : ein.group[i] \in {0, 1}
    /\ GroupValues(0) # <<>> /\ GroupValues(1) # <<>>
\* data[group == 1].mean() - data[group == 0].mean() of the input
MeanDifference == FSub(Mean(GroupValues(1)), Mean(GroupValues(0)))
\* the returned values as integers over their common denominator (Cohen's d
\* does not depend on the unit)
Scaled(out) ==
    LET den == CHOOSE d \in {out[i].d : i \in DOMAIN out} :
                  \A i \in DOMAIN out : d % out[i].d = 0
    IN [i \in DOMAIN out |-> out[i].n * (den \div out[i].d)]
\* _calculate_cohens_d of the returned array.  When values hold a part c / d,
\* the same c in all of group 1 and none in group 0, the deviations are those
\* of the rational parts; if these are the deviations of the input and the
\* rational parts of the two groups have equal means, the pooled deviation is
\* that of the input and the result is c / (the input's mean difference).
ResultCohensD ==
    LET out == eout.out
        ones == {i \in DOMAIN out : ein.group[i] = 1}
    IN CASE \E i \in DOMAIN out : out[i].k = "nan" -> NaN
         [] \A i \in DOMAIN out : out[i].k = "num" -> CohensD(Scaled(out), ein.group)
         [] OTHER ->
              IF /\ TwoGroups
                 /\ eout.current.k = "fin"
                 /\ \A i \in DOMAIN out : out[i].k = "sym" <=> i \in ones
                 /\ \A i, j \in ones : FEq(SymPart(out[i]), SymPart(out[j]))
                 /\ \A i \in ones :
                      FEq(RatPart(out[i]), FSub(Num(ein.data[i], 1), MeanDifference))
              THEN LET c == SymPart(out[CHOOSE i \in ones : TRUE])
                   IN FDiv(c, MeanDifference)
              ELSE NaN
\* a Cohen's d, held as a value or as its sign and square, equals the target
EqualsTarget(dv, target) ==
    CASE dv.k = "num" -> FEq(dv, target)
      [] dv.k = "fin" -> /\ dv.n * target.n > 0
                         /\ dv.sqn * target.d * target.d = target.n * target.n * dv.sqd
      [] OTHER -> FALSE
\* the conclusions of the claim for the returned array
ShiftedByConstant ==
    LET ones == {i \in DOMAIN ein.data : ein.group[i] = 1}
        shift(i) == IF eout.out[i].k = "nan" THEN NaN
                    ELSE FSub(RatPart(eout.out[i]), Num(ein.data[i], 1))
    IN /\ \A i, j \in ones : /\ FEq(shift(i), shift(j))
                             /\ FEq(SymPart(eout.out[i]), SymPart(eout.out[j]))
       \* the new mean difference is the old one plus the shift
       /\ \A i \in ones :
            IF eout.current.k = "fin"
            THEN /\ FEq(FAdd(MeanDifference, shift(i)), Zero)
                 /\ FEq(SymPart(eout.out[i]), FMul(MeanDifference, ein.target))
            ELSE /\ eout.current.k = "num"
                 /\ FEq(FAdd(MeanDifference, shift(i)),
                        FMul(MeanDifference, FDiv(ein.target, eout.current)))
       /\ ein.current = None => EqualsTarget(ResultCohensD, ein.target)

MaxChain == 2

ChainRules ==
    {[var1 |-> "a", var2 |-> "b", relation |-> "var1_less_than_var2", action |-> "adjust_var2"],
     [var1 |-> "c", var2 |-> "a", relation |-> "var1_less_than_var2", action |-> "adjust_var2"],
     [var1 |-> "b", var2 |-> "c", relation |-> "var1_less_than_var2", action |-> "adjust_var1"]}

\* dicts of three float arrays of the same length
ChainInputs ==
    UNION {[fn : {"ensure_logical_consistency"},
            data : [{"a", "b", "c"} -> [1..n -> ConsistencyValues]],
            dtype : {"float64"},
            rules : SeqsUpTo(ChainRules, MaxChain)] : n \in 1..MaxRows}

ChainInit ==
    /\ fin \in ChainInputs
    /\ fout = NoCall
    /\ RngIdle /\ ValIdle /\ CensIdle /\ EffIdle /\ OddsIdle

SpecConsistencyChain == ChainInit /\ [][ConsistencyNext]_vars

\* C27: when ensure_logical_consistency returns, every var1_less_than_var2
\* rule of the list whose two variables are present holds on every row at
\* the same time, for rule lists of any length, in any order and with any mix
\* of adjust_var1 and adjust_var2 actions: applying a later rule never breaks
\* an ordering restored by an earlier rule.
C27_AllRulesHold ==
    (fin.fn = "ensure_logical_consistency" /\ FnReturned) =>
        \A k \in DOMAIN fin.rules :
            LET rule == fin.rules[k]
            IN (/\ rule.relation = "var1_less_than_var2"
                /\ rule.var1 \in DOMAIN fout.result /\ rule.var2 \in DOMAIN fout.result) =>
                  \A i \in DOMAIN fout.result[rule.var1] :
                     fout.result[rule.var1][i] < fout.result[rule.var2][i]

\* ---- enhance_realism ----
\* the arguments; rates in quarters like the np.random.random variates
EnhanceData == {-1, 1, 3}
EnhanceRates == {0, 2}
ErrorSds == {0, 1}
EnhancePrecisions == {None, Some(2)}
ValueRanges == {None, Some(<<Zero, Num(2, 1)>>), Some(<<Num(1, 1), Num(1, 1)>>)}
\* np.random.normal(0, error_sd * data_range): an error below or above 0
ErrorDraws == {-2, 1}

\* the calls of enhance_realism in the order of its statements, each with
\* the test that guards it
StepOrderRangeFirst == <<"enforce_range", "add_measurement_error", "add_outliers", "round_to_precision", "add_missing_values">>
StepOrder == <<"add_measurement_error", "add_outliers", "round_to_precision", "enforce_range", "add_missing_values">>
StepEnabled(name) ==
    CASE name = "add_measurement_error" -> fin.measurement_error > 0
      [] name = "add_outliers" -> fin.outlier_rate > 0
      [] name = "round_to_precision" -> fin.precision # None
      [] name = "enforce_range" -> fin.value_range # None
      [] name = "add_missing_values" -> fin.missing_rate > 0

\* add_measurement_error(data, error_sd), additive: np.nanstd(data) is 0 for
\* equal values, and the normal variates of scale 0 are 0
add_measurement_error(data, errors) ==
    IF \A i, j \in DOMAIN data : data[i] = data[j] THEN data
    ELSE [i \in DOMAIN data |-> data[i] + errors[i]]

\* add_outliers(result, outlier_rate, 'clinical'): every value it returns is
\* a number
ClinicalOutliers(data, outlier_rate, r, draws) ==
    LET call == add_outliers(data, outlier_rate, "clinical", Multiplier, r, draws)
    IN [i \in DOMAIN data |-> call.out[i].m]

\* round_to_precision(result, precision), method 'round', of rationals
RoundNums(data, precision) ==
    [i \in DOMAIN data |->
        Num(NpRound(data[i].n, data[i].d * precision) * precision, 1)]

\* add_missing_values(result, missing_rate), MCAR
McarMissing(data, missing_rate, r) ==
    [i \in DOMAIN data |-> IF i \in Masked(r, missing_rate) THEN NaN ELSE data[i]]

EnhanceInputs ==
    [fn : {"enhance_realism"}, data : SeqsUpTo(EnhanceData, MaxRows),
     missing_rate : EnhanceRates, outlier_rate : EnhanceRates,
     measurement_error : ErrorSds, precision : EnhancePrecisions,
     value_range : ValueRanges]

EnhanceInit ==
    /\ fin \in EnhanceInputs
    /\ fout = NoCall
    /\ RngIdle /\ ValIdle /\ CensIdle /\ EffIdle /\ OddsIdle

\* enhancer = RealismEnhancer(random_seed); result = data.copy()
EnhanceCopy ==
    /\ fin.fn = "enhance_realism" /\ fout = NoCall
    /\ fout' = [fn |-> "running", step |-> 0, applied |-> <<>>,
                result |-> [i \in DOMAIN fin.data |-> Num(fin.data[i], 1)]]
    /\ UNCHANGED <<fin, rngVars, valVars, censVars, effVars, oddsVars>>

\* the next statement of the function: the guarded call of one operation
EnhanceStep ==
    /\ fin.fn = "enhance_realism" /\ fout # NoCall /\ fout.fn = "running"
    /\ fout.step < Len(StepOrder)
    /\ LET name == StepOrder[fout.step + 1]
           result == fout.result
           rows == DOMAIN result
           Done(new) == fout' = [fout EXCEPT !.step = fout.step + 1,
                                             !.applied = Append(fout.applied, name),
                                             !.result = new]
       IN IF ~StepEnabled(name)
          THEN fout' = [fout EXCEPT !.step = fout.step + 1]
          ELSE CASE name = "add_measurement_error" ->
                      \E errors \in [rows -> ErrorDraws] :
                         Done([i \in rows |->
                                 Num(add_measurement_error(
                                        [j \in rows |-> result[j].n], errors)[i], 1)])
                 [] name = "add_outliers" ->
                      \E r \in [rows -> MaskVariates] :
                         \E draws \in [1..Cardinality(Masked(r, fin.outlier_rate))
                                         -> OutlierDraws] :
                            Done(ClinicalOutliers([j \in rows |-> result[j].n],
                                                  fin.outlier_rate, r, draws))
                 [] name = "round_to_precision" ->
                      Done(RoundNums(result, Val(fin.precision)))
                 [] name = "enforce_range" ->
                      Done(enforce_range(result, Some(Val(fin.value_range)[1]),
                                         Some(Val(fin.value_range)[2])))
                 [] name = "add_missing_values" ->
                      \E r \in [rows -> MaskVariates] :
                         Done(McarMissing(result, fin.missing_rate, r))
    /\ UNCHANGED <<fin, rngVars, valVars, censVars, effVars, oddsVars>>

\* return result
EnhanceReturn ==
    /\ fin.fn = "enhance_realism" /\ fout # NoCall /\ fout.fn = "running"
    /\ fout.step = Len(StepOrder)
    /\ fout' = [fout EXCEPT !.fn = "returned"]
    /\ UNCHANGED <<fin, rngVars, valVars, censVars, effVars, oddsVars>>

EnhanceNext == EnhanceCopy \/ EnhanceStep \/ EnhanceReturn

SpecEnhance == EnhanceInit /\ [][EnhanceNext]_vars

\* ---- the claim about enhance_realism ----
\* the operations applied so far are the enabled ones among the first
\* fout.step of the five, in the order of the list
AppliedInOrder ==
    LET order == <<"add_measurement_error", "add_outliers", "round_to_precision",
                   "enforce_range", "add_missing_values">>
        enabled == {k \in 1..fout.step : StepEnabled(order[k])}
    IN /\ Len(fout.applied) = Cardinality(enabled)
       /\ \A k \in enabled :
            fout.applied[Cardinality({j \in enabled : j <= k})] = order[k]

\* C28: enhance_realism applies its steps in the fixed order measurement
\* error, outliers, rounding to precision, range enforcement, missing values
\* (each only when enabled), with missing values always last; consequently,
\* when value_range = (lo, hi) with lo <= hi is given, every non-missing
\* element of the result lies in [lo, hi] whatever the other settings are.
C28_FixedOrder ==
    (fin.fn = "enhance_realism" /\ fout # NoCall) =>
        /\ AppliedInOrder
        /\ FnReturned =>
             /\ fout.step = 5
             /\ fin.missing_rate > 0 =>
                   fout.applied[Len(fout.applied)] = "add_missing_values"
             /\ (fin.value_range # None
                   /\ FLe(Val(fin.value_range)[1], Val(fin.value_range)[2])) =>
                   \A i \in DOMAIN fout.result :
                      \/ fout.result[i].k = "nan"
                      \/ InRange(fout.result[i], Some(Val(fin.value_range)[1]),
                                 Some(Val(fin.value_range)[2]))

\* a call with every step enabled whose result holds a missing value and a
\* value that the range enforcement brought to the upper bound
C28_Witness ==
    /\ fin.fn = "enhance_realism" /\ FnReturned
    /\ Len(fout.applied) = 5
    /\ fin.value_range = Some(<<Zero, Num(2, 1)>>)
    /\ fin.data = <<3, 3>>
    /\ fout.result = <<NaN, Num(2, 1)>>

\* ---- two calls that differ in censoring_rate only ----
RatePairs == {<<0, RateDen>>, <<1, 2>>}
PairVariates(n) == [u : [1..n -> {0, 3}], mix : [1..n -> {0, 1}]]
Distributions == {"exponential", "weibull", "gamma"}

\* generate_survival_data, given the survival times its generator sampled
\* and the variates of the censoring
generate_survival_data(survival_time, distribution, censoring_rate, max_time, u, mix) ==
    IF distribution \notin {"exponential", "weibull"}
    THEN [fn |-> "raised"]
    ELSE generate_censoring(survival_time, censoring_rate, "mixed", max_time, u, mix)

PairInputs ==
    [fn : {"generate_censoring"},
     survival_time : UNION {[1..m -> SurvivalTimes] : m \in 1..MaxSurv},
     rates : RatePairs, censoring_type : CensoringTypes, max_followup : Followups]
    \cup
    [fn : {"generate_survival_data"},
     survival_time : UNION {[1..m -> SurvivalTimes] : m \in 1..MaxSurv},
     rates : RatePairs, distribution : Distributions, max_time : Followups]

PairInit ==
    /\ fin \in PairInputs
    /\ fout = NoCall
    /\ RngIdle /\ ValIdle /\ CensIdle /\ EffIdle /\ OddsIdle

\* generate_censoring called twice on the same survival_time, the same
\* max_followup and the same random draws
CallCensoringPair ==
    /\ fin.fn = "generate_censoring" /\ fout = NoCall
    /\ \E r \in PairVariates(Len(fin.survival_time)) :
         fout' = [fn |-> "returned",
                  first |-> generate_censoring(fin.survival_time, fin.rates[1],
                               fin.censoring_type, fin.max_followup, r.u, r.mix),
                  second |-> generate_censoring(fin.survival_time, fin.rates[2],
                               fin.censoring_type, fin.max_followup, r.u, r.mix)]
    /\ UNCHANGED <<fin, rngVars, valVars, censVars, effVars, oddsVars>>

\* generate_survival_data called twice with the same seed
CallSurvivalDataPair ==
    /\ fin.fn = "generate_survival_data" /\ fout = NoCall
    /\ \E r \in PairVariates(Len(fin.survival_time)) :
         fout' = [fn |-> "returned",
                  first |-> generate_survival_data(fin.survival_time, fin.distribution,
                               fin.rates[1], fin.max_time, r.u, r.mix),
                  second |-> generate_survival_data(fin.survival_time, fin.distribution,
                               fin.rates[2], fin.max_time, r.u, r.mix)]
    /\ UNCHANGED <<fin, rngVars, valVars, censVars, effVars, oddsVars>>

PairNext == CallCensoringPair \/ CallSurvivalDataPair

SpecCensoringPair == PairInit /\ [][PairNext]_vars

In(key) == <<"in", key>>
Out(key) == <<"out", key>>
New(key) == <<"new", key>>
Heap(arrays) == [ref \in {In(key) : key \in DOMAIN arrays} |-> arrays[ref[2]]]
\* result = data: the name refers to the caller's array
NpAlias(heap, key) == [heap |-> heap, ref |-> In(key)]
\* result = data.copy(): the name refers to a new array with the same values
NpCopy(heap, key) == [heap |-> heap @@ (Out(key) :> heap[In(key)]), ref |-> Out(key)]
\* result[mask] = values: the array that the name refers to is written
Assign(obj, contents) ==
    [heap |-> [obj.heap EXCEPT ![obj.ref] = contents], ref |-> obj.ref]
\* result = f(result): the name is bound to the array the expression creates
Rebind(obj, key, contents) ==
    [heap |-> [ref \in DOMAIN obj.heap \cup {New(key)} |->
                 IF ref = New(key) THEN contents ELSE obj.heap[ref]],
     ref |-> New(key)]
\* what the caller holds after the call
ReturnObject(obj) == [fn |-> "returned", heap |-> obj.heap, ret |-> {obj.ref}]
RaiseFrom(heap) == [fn |-> "raised", heap |-> heap, ret |-> {}]

\* an array of whole numbers as the float array the call computes with
Floats(data) == [i \in DOMAIN data |-> Num(data[i], 1)]
\* the arrays given to a call, by argument name or dict key, with the values
\* in the form in which the call writes its results
InputArrays(x) ==
    CASE x.fn = "adjust_effect_size" -> [data |-> Floats(x.data), group |-> x.group]
      [] x.fn = "adjust_odds_ratio" -> [outcome |-> x.outcome, exposure |-> x.exposure]
      [] x.fn = "adjust_hazard_ratio" ->
           [survival_time |-> Floats(x.survival_time), exposure |-> x.exposure]
      [] x.fn = "add_missing_values" ->
           IF x.related_var = None THEN [data |-> Floats(x.data)]
           ELSE [data |-> Floats(x.data), related_var |-> Val(x.related_var)]
      [] x.fn = "add_outliers" ->
           [data |-> [i \in DOMAIN x.data |-> Lin(Num(x.data[i], 1), Zero)]]
      [] x.fn \in {"add_misclassification", "enforce_range"} -> [data |-> x.data]
      [] x.fn \in {"add_dropout", "ensure_logical_consistency"} -> x.data

\* the arrays adjust_odds_ratio can hold in adjusted when its loop ends, with
\* left iterations to go
RECURSIVE OrResults(_, _, _, _)
OrResults(adj, exposure, target_or, left) ==
    LET current_or == OddsRatio(adj, exposure)
        exposed_zeros == {i \in DOMAIN adj : exposure[i] = 1 /\ adj[i] = 0}
        exposed_ones == {i \in DOMAIN adj : exposure[i] = 1 /\ adj[i] = 1}
    IN IF left = 0 \/ current_or = None THEN {adj}
       ELSE IF Close(Val(current_or), target_or) THEN {adj}
       ELSE IF FLt(Val(current_or), target_or)
       THEN IF exposed_zeros = {} THEN OrResults(adj, exposure, target_or, left - 1)
            ELSE UNION {OrResults([adj EXCEPT ![k] = 1], exposure, target_or, left - 1)
                          : k \in exposed_zeros}
       ELSE IF exposed_ones = {} THEN OrResults(adj, exposure, target_or, left - 1)
            ELSE UNION {OrResults([adj EXCEPT ![k] = 0], exposure, target_or, left - 1)
                          : k \in exposed_ones}

\* the dicts ensure_logical_consistency can hold in result after the rules
\* from position k on
RECURSIVE ConsistencyResults(_, _, _, _)
ConsistencyResults(result, dtype, rules, k) ==
    IF k > Len(rules) THEN {result}
    ELSE UNION {ConsistencyResults(ApplyRule(result, dtype, rules[k], offset),
                                   dtype, rules, k + 1)
                  : offset \in [DOMAIN result["a"] -> Offsets]}

ObjectInputs ==
    {x \in EffInputs : Len(x.data) <= MaxRows}
    \cup {x \in OddsInputs : Len(x.outcome) <= MaxRows}
    \cup {x \in HrInputs : Len(x.survival_time) <= MaxRows}
    \cup {x \in MissingInputs : x.related_var = None
                                  \/ Len(Val(x.related_var)) = Len(x.data)}
    \cup OutlierInputs \cup MisclassInputs \cup RangeInputs \cup DropoutInputs
    \cup ConsistencyInputs

ObjectInit ==
    /\ fin \in ObjectInputs
    /\ fout = NoCall
    /\ RngIdle /\ ValIdle /\ CensIdle /\ EffIdle /\ OddsIdle

ObjectFrame == UNCHANGED <<fin, rngVars, valVars, censVars, effVars, oddsVars>>

\* adjust_effect_size: `return data`, or the copy with group 1 written
ObjAdjustEffectSize ==
    /\ fin.fn = "adjust_effect_size" /\ fout = NoCall
    /\ LET heap == Heap(InputArrays(fin))
           call == adjust_effect_size(fin.data, fin.group, fin.target, fin.current)
       IN fout' = IF call.same_object THEN ReturnObject(NpAlias(heap, "data"))
                  ELSE ReturnObject(Assign(NpCopy(heap, "data"), call.out))
    /\ ObjectFrame

\* adjust_odds_ratio: adjusted = outcome.copy(), then the flips in adjusted
ObjAdjustOddsRatio ==
    /\ fin.fn = "adjust_odds_ratio" /\ fout = NoCall
    /\ LET heap == Heap(InputArrays(fin))
       IN \E adj \in OrResults(fin.outcome, fin.exposure, fin.target_or,
                               fin.max_iterations) :
            fout' = ReturnObject(Assign(NpCopy(heap, "outcome"), adj))
    /\ ObjectFrame

\* adjust_hazard_ratio: `return survival_time`, or the copy with the exposed
\* arm written
ObjAdjustHazardRatio ==
    /\ fin.fn = "adjust_hazard_ratio" /\ fout = NoCall
    /\ LET heap == Heap(InputArrays(fin))
           call == adjust_hazard_ratio(fin.survival_time, fin.exposure,
                                       fin.target_hr, fin.current_hr)
       IN fout' = IF call.same_object THEN ReturnObject(NpAlias(heap, "survival_time"))
                  ELSE ReturnObject(Assign(NpCopy(heap, "survival_time"), call.out))
    /\ ObjectFrame

\* add_missing_values: result = data.astype(float).copy(), then the mask is
\* written, unless the mechanism raises
ObjAddMissingValues ==
    /\ fin.fn = "add_missing_values" /\ fout = NoCall
    /\ LET copied == NpCopy(Heap(InputArrays(fin)), "data")
       IN \E r \in [DOMAIN fin.data -> MaskVariates] :
            LET call == AddMissingValues(fin.data, fin.missing_rate, fin.mechanism,
                                         fin.related_var, r)
            IN fout' = IF call.fn = "raised" THEN RaiseFrom(copied.heap)
                       ELSE ReturnObject(Assign(copied, call.out))
    /\ ObjectFrame

\* add_outliers: result = data.copy(), then result[outlier_mask] is written
ObjAddOutliers ==
    /\ fin.fn = "add_outliers" /\ fout = NoCall
    /\ LET copied == NpCopy(Heap(InputArrays(fin)), "data")
       IN \E r \in [DOMAIN fin.data -> MaskVariates] :
            \E draws \in [1..Cardinality(Masked(r, fin.outlier_rate)) -> OutlierDraws] :
               LET call == add_outliers(fin.data, fin.outlier_rate, fin.outlier_type,
                                        fin.multiplier, r, draws)
               IN fout' = IF call.fn = "raised" THEN RaiseFrom(copied.heap)
                          ELSE ReturnObject(Assign(copied, call.out))
    /\ ObjectFrame

\* add_misclassification: result = data.copy(), then result[i] is written
ObjAddMisclassification ==
    /\ fin.fn = "add_misclassification" /\ fout = NoCall
    /\ LET copied == NpCopy(Heap(InputArrays(fin)), "data")
       IN \E r \in [DOMAIN fin.data -> MaskVariates] :
            \E call \in add_misclassification(fin.data, fin.error_rate,
                                              fin.categories, r) :
               fout' = ReturnObject(Assign(copied, call.out))
    /\ ObjectFrame

\* enforce_range: result = data.copy(), then result = np.maximum(result,
\* min_val) and result = np.minimum(result, max_val), each a new array
ObjEnforceRange ==
    /\ fin.fn = "enforce_range" /\ fout = NoCall
    /\ LET copied == NpCopy(Heap(InputArrays(fin)), "data")
           raised == IF fin.min_val = None THEN copied
                     ELSE Rebind(copied, "data",
                                 enforce_range(copied.heap[copied.ref], fin.min_val, None))
           capped == IF fin.max_val = None THEN raised
                     ELSE Rebind(raised, "data",
                                 enforce_range(raised.heap[raised.ref], None, fin.max_val))
       IN fout' = ReturnObject(capped)
    /\ ObjectFrame

\* add_dropout: filtered_data[key] = values[retained_mask], a new array for
\* every key
ObjAddDropout ==
    /\ fin.fn = "add_dropout" /\ fout = NoCall
    /\ LET heap == Heap(InputArrays(fin))
           n == IF DOMAIN fin.data = {} THEN 0 ELSE Len(fin.data[DictKeys[1]])
       IN \E r \in [1..n -> MaskVariates] :
            LET call == add_dropout(fin.data, fin.dropout_rate, fin.dropout_mechanism, r)
            IN fout' =
                 IF call.fn = "raised" THEN RaiseFrom(heap)
                 ELSE [fn |-> "returned",
                       heap |-> [ref \in DOMAIN heap \cup {New(key) : key \in DOMAIN fin.data}
                                   |-> IF ref \in DOMAIN heap THEN heap[ref]
                                       ELSE call.filtered_data[ref[2]]],
                       ret |-> {New(key) : key \in DOMAIN fin.data}]
    /\ ObjectFrame

\* ensure_logical_consistency: result = {k: v.copy() ...}, then the rules
\* write result[var2][mask] or result[var1][mask]
ObjEnsureLogicalConsistency ==
    /\ fin.fn = "ensure_logical_consistency" /\ fout = NoCall
    /\ LET heap == Heap(InputArrays(fin))
           refs == [key \in DOMAIN fin.data |-> NpCopy(heap, key).ref]
           copied == [ref \in DOMAIN heap \cup {refs[key] : key \in DOMAIN fin.data}
                        |-> heap[In(ref[2])]]
       IN \E final \in ConsistencyResults(fin.data, fin.dtype, fin.rules, 1) :
            fout' = [fn |-> "returned",
                     heap |-> [ref \in DOMAIN copied |->
                                 IF \E key \in DOMAIN fin.data : refs[key] = ref
                                 THEN final[ref[2]] ELSE copied[ref]],
                     ret |-> {refs[key] : key \in DOMAIN fin.data}]
    /\ ObjectFrame

ObjectNext ==
    \/ ObjAdjustEffectSize
    \/ ObjAdjustOddsRatio
    \/ ObjAdjustHazardRatio
    \/ ObjAddMissingValues
    \/ ObjAddOutliers
    \/ ObjAddMisclassification
    \/ ObjEnforceRange
    \/ ObjAddDropout
    \/ ObjEnsureLogicalConsistency

SpecObjects == ObjectInit /\ [][ObjectNext]_vars

\* C30: no injector or perturbation modifies its input in place: after any
\* call of adjust_effect_size, adjust_odds_ratio, adjust_hazard_ratio,
\* add_missing_values, add_outliers, add_misclassification, enforce_range,
\* add_dropout or ensure_logical_consistency, every input array (and every
\* array of an input dict) holds the same values as before the call.
C30_InputsUnchanged ==
    (fin # NoCall /\ fout # NoCall /\ fin \in ObjectInputs) =>
        \A key \in DOMAIN InputArrays(fin) :
            /\ In(key) \in DOMAIN fout.heap
            /\ fout.heap[In(key)] = InputArrays(fin)[key]

\* a call of ensure_logical_consistency that returned copies of which one
\* differs from the caller's array
C30_Witness ==
    /\ fin # NoCall /\ fout # NoCall
    /\ fin.fn = "ensure_logical_consistency"
    /\ fout.fn = "returned"
    /\ fout.ret = {Out("a"), Out("b")}
    /\ fout.heap[Out("b")] # fout.heap[In("b")]
    /\ fout.heap[Out("a")] = fout.heap[In("a")]
    /\ fout.heap[In("b")] = fin.data["b"]

====
